---- MODULE Spec2Model ----
(***************************************************************************)
(* Model of the client-side intercept life-cycle of a telepresence session *)
(* (pkg/client/userd/trafficmgr/intercept.go): the snapshot reconciler,    *)
(* the waiter registry used by AddIntercept, client-initiated removal and  *)
(* the API-server reconciliation; and of the traffic-manager's side of     *)
(* creating an intercept: findIntercept, ensureAgent,                      *)
(* getOrCreateAgentConfig and waitForAgents.                               *)
(***************************************************************************)
EXTENDS Integers, Sequences, FiniteSets, TLC

(***************************************************************************)
(* Bounds and universes                                                    *)
(***************************************************************************)
MaxWg == 1           \* scoped workers registered in one intercept's wg

IDs == {1, 2}
Names == {"a", "b"}
Calls == {1, 2}
User == 0            \* the caller of RemoveIntercept / ClearIngestsAndIntercepts
Objs == IDs           \* the intercept object of an id; see setCurrentIntercepts
SessionNamespace == "ns1"
Namespaces == {"ns1", "ns2"}
Hosts == {"127.0.0.1"}
Ports == {8080, 9090}
Disps == {"WAITING", "ACTIVE", "NO_AGENT"}
WaitChCap == 2       \* make(chan interceptResult, 2)

TargetPortOfName(n) == IF n = "a" THEN 8080 ELSE 9090
PodIPOfId(i) == IF i = 1 THEN "10.0.0.1" ELSE "10.0.0.2"
ApiPortEnvOfId(i) == IF i = 1 THEN <<>> ELSE <<8, 1>>

\* values of TELEPRESENCE_API_PORT as digit strings (-1: a character that is
\* no digit): unset, "81", "90", "0", "70000", "-1"
ApiEnvs == {<<>>, <<8, 1>>, <<9, 0>>, <<0>>, <<7, 0, 0, 0, 0>>, <<-1, 1>>}

\* manager.InterceptInfo records
AllRecords ==
  { r \in [id : IDs, name : Names, disp : Disps, ns : Namespaces,
           targetHost : Hosts, targetPort : Ports,
           podIP : {PodIPOfId(i) : i \in IDs},
           apiPortEnv : ApiEnvs,
           headers : {"h", "bad"}] :
      /\ r.ns # SessionNamespace => r.disp = "ACTIVE"
      /\ r.targetPort = TargetPortOfName(r.name) }

\* the records of intercepts that each have a pod and an environment of their own
Records ==
  { r \in AllRecords : /\ r.podIP = PodIPOfId(r.id)
                        /\ r.apiPortEnv = ApiPortEnvOfId(r.id)
                        /\ r.headers = "h" }

NoInfo == [id |-> 0]

\* the Metadata of the record of an id
MetadataOfId(i) == IF i = 1 THEN "m1" ELSE "m2"

\* the calls that read the intercept set: of getCurrentIntercepts, of
\* getInterceptByName(name), of ensureNoInterceptConflict for a request with
\* that name and no target port, of InterceptInfo(callerID, path, headers)
ReadRequests ==
  [kind : {"getCurrentIntercepts"}, name : {""}, callerID : {0}, path : {""}, headers : {""}]
  \cup [kind : {"getInterceptByName", "ensureNoInterceptConflict"}, name : Names,
        callerID : {0}, path : {""}, headers : {""}]
  \cup [kind : {"InterceptInfo"}, name : {""}, callerID : IDs, path : {"/"}, headers : {"h", "x"}]
NoRead == [kind |-> ""]
Unread == [obj |-> -1, info |-> NoInfo, matcher |-> ""]
NoInterceptInfo == [returned |-> FALSE, intercepted |-> FALSE, metadata |-> "", err |-> ""]

\* a snapshot is a list of records with pairwise distinct ids
SnapshotsOf(recs) ==
  { s \in UNION { [1..n -> recs] : n \in 0..Cardinality(IDs) } :
      \A i, j \in DOMAIN s : i # j => s[i].id # s[j].id }

Snapshots == SnapshotsOf(Records)

SnapIds(s) == { s[i].id : i \in DOMAIN s }

\* the mount configuration a call passes in its CreateInterceptRequest
NoMount == [mountPoint |-> "", mountPort |-> 0, readOnly |-> FALSE]
MountOfCall(c) == [mountPoint |-> IF c = 1 THEN "/mnt/1" ELSE "/mnt/2",
                   mountPort |-> 0, readOnly |-> c = 2]

\* rpc.CreateInterceptRequest as far as AddIntercept reads it
Requests == [name : Names, ns : Namespaces \cup {""}, agent : {"", "wl"},
             targetHost : Hosts, targetPort : Ports \cup {0}]

(***************************************************************************)
(* Universes of the traffic-manager: agent configs and intercept specs     *)
(***************************************************************************)
\* the most intercept rules a workload declares
MaxRules == 2

ServiceNames == {"svcA", "svcB"}
ContainerNames == <<"c1", "c2">>

\* agentconfig.Intercept: a rule of service svcA or svcB, reached through a
\* service (it carries the service's UID) or headless
InterceptRules ==
  [serviceName : ServiceNames, serviceUID : {"", "uid"},
   servicePortName : {"http"}, servicePort : {80},
   containerPortName : {"web"}, containerPort : {8080}]

\* the rules of each container of ac.Containers, in order
SidecarsOf(n) ==
  { ac \in [DOMAIN ContainerNames -> UNION { [1..k -> InterceptRules] : k \in 0..n }] :
      Len(ac[1]) + Len(ac[2]) <= n }

Sidecars == SidecarsOf(MaxRules)

\* spec.PortIdentifier: none, a port name, a port number
PortIdentifiers == {"", "http", "web", "80", "8080"}

\* managerrpc.InterceptSpec as far as findIntercept reads it
InterceptSpecs ==
  [serviceName : ServiceNames \cup {""},
   containerName : {"", "c1", "c2", "cx"},
   portIdentifier : PortIdentifiers]

NoSpec == [serviceName |-> "", containerName |-> "", portIdentifier |-> ""]

\* the most events that waitForAgents collects
MaxEvents == 1

\* the most finalizers that are added to an interceptState, and the
\* finalizers that are added
MaxFinalizers == 3
Finalizers == {1, 2}

\* agent sessions: 1 and 2 are agents of the workload, 3 of another one
AgentSessions == {1, 2, 3}
WorkloadAgents == {1, 2}
\* the agents whose pod the mutator has blacklisted
Blacklisted == {2}

\* the configured agent image ("": none could be determined) and the image
\* of an existing agent-config record
AgentImages == {"", "img2"}
EntryImages == {"img1", "img2"}

\* an entry of the agent-config map: absent, or the sidecar of the workload
\* with its agent image and the replace policy of each container
NoEntry == [found |-> FALSE, agentImage |-> "",
            replace |-> [c \in DOMAIN ContainerNames |-> FALSE]]
Entries ==
  {NoEntry} \cup
  { [found |-> TRUE, agentImage |-> i, replace |-> [c \in DOMAIN ContainerNames |-> FALSE]] :
      i \in EntryImages }

\* the containers of the sidecar that is generated for the workload
GeneratedRules ==
  << << [serviceName |-> "svcA", serviceUID |-> "uid", servicePortName |-> "http",
         servicePort |-> 80, containerPortName |-> "web", containerPort |-> 8080] >>,
     << [serviceName |-> "svcB", serviceUID |-> "uid", servicePortName |-> "http",
         servicePort |-> 80, containerPortName |-> "web", containerPort |-> 8080] >> >>

\* the pod template of the workload: the inject annotation, the
\* manual-inject annotation being "true", a traffic-agent container
Workloads ==
  { w \in [inject : {"", "enabled", "false", "disabled", "bogus"},
           manual : BOOLEAN, agentContainer : BOOLEAN] :
      w.agentContainer => w.manual }

\* the callers of ensureAgent: EnsureAgent (no spec, not extended) and
\* PrepareIntercept (the spec of the request, extended by its mechanism)
NilSpec == [nil |-> TRUE, serviceName |-> "", containerName |-> "", portIdentifier |-> "",
            replace |-> FALSE, mechanism |-> "tcp"]
AgentSpecs ==
  {NilSpec} \cup
  [nil : {FALSE}, serviceName : {"", "svcA"}, containerName : {""},
   portIdentifier : {"", "8080"}, replace : BOOLEAN, mechanism : {"tcp", "http"}]

\* the arguments and the environment of a call of ensureAgent
EnsureAgentInputs ==
  [injectorEnabled : BOOLEAN, wl : Workloads, agentImage : AgentImages, spec : AgentSpecs]

\* no call: its arguments and the entry that it found in the map
NoInput == [args |-> [injectorEnabled |-> FALSE], entry |-> NoEntry]
NoReturn == [returned |-> FALSE, cat |-> "", msg |-> <<>>, agents |-> {}]

NoRule == [serviceName |-> ""]

\* the handlers that call ensureAgent, and what agentmap.GetWorkload returns
Handlers == {"PrepareIntercept", "EnsureAgent"}
GetWorkloadErrors == {"not found", "failed"}
NoCall == [handler |-> "", getWorkload |-> ""]
\* no error, and what a handler returns: for PrepareIntercept pi is "nil",
\* "error" (Error and ErrorCategory are set) or "prepared"
NilError == [kind |-> "", msg |-> <<>>]
NoResult == [returned |-> FALSE, pi |-> "nil", error |-> <<>>, errorCategory |-> "",
             ic |-> NoRule, agents |-> {}, err |-> NilError]

\* events.Event as far as waitForAgents reads it
EventNotes == {"restarting failed container traffic-agent in pod wl-1_ns1",
               "0/3 nodes are available", "exceeded quota"}
Events ==
  { e \in [reason : {"BackOff", "FailedCreate", "FailedScheduling", "Unhealthy"},
           type : {"Warning", "Error"}, note : EventNotes] :
      /\ e.reason = "BackOff" <=> e.note = "restarting failed container traffic-agent in pod wl-1_ns1"
      /\ e.reason \in {"BackOff", "Unhealthy"} => e.type = "Warning"
      /\ e.type = "Error" => e.note = "0/3 nodes are available"
      /\ e.reason = "Unhealthy" => e.note = "exceeded quota" }
NoEvent == [reason |-> ""]
NoSnapshot == [got |-> FALSE, state |-> {}]
NoFound == [err |-> "", cn |-> 0, ic |-> NoRule]

VARIABLES
  currentIntercepts,   \* s.currentIntercepts: id -> object (0: absent)
  interceptWaiters,    \* s.interceptWaiters: name -> registering call (0: none)
  currentAPIServers,   \* s.currentAPIServers: ports with a listener
  currentMatchers,     \* s.currentMatchers: id -> headers compiled ("" : none)
  objInfo,             \* ic.InterceptInfo
  objCancelled,        \* ic.ctx is done
  objWg,               \* ic.wg counter
  objHandler,          \* "" | "pid" | "container" (ic.pid, ic.handlerContainer)
  objMount,            \* ClientMountPoint, localMountPort, readOnly
  handlerAlive,        \* objects whose handler process/container is running
  chanBuf,             \* waitCh of each call: buffered interceptResults
  chanClosed,          \* waitCh of each call has been closed
  rPc, rSnap, rIdx, rAw,         \* watchInterceptsLoop / handleInterceptSnapshot
  rErr,                \* the error of stream.Recv() and ctx.Err() != nil at that point
  patAlive,            \* podAccessTracker: key -> owner object of the session
  patSnapshot,         \* podAccessTracker: keys refreshed in this pass
  mountsDone,          \* readiness channel per key: "none" | "open" | "closed"
  cPc, cReq, cRes, cGot, cCreated,   \* AddIntercept calls
  cSent,               \* number of results sent on the waitCh of each call
  rmPc, rmQueue, rmName, rmLog,                \* removeIntercept runs
  removeReqs,          \* <<call, name>>: remove requests sent by the deferred removal of a call
  panicked             \* a goroutine panicked (send on closed channel): the process is gone

VARIABLES
  currentInterceptsLock,   \* s.currentInterceptsLock: "" or who holds it
  rdPc, rdReq,         \* a reader of the intercept set and what it was called with
  rdIdx,               \* the id that the reader looks at next
  rdView,              \* what the reader has seen of each id
  iiRes                \* the restapi.InterceptInfo that InterceptInfo is about to return

readVars == <<currentInterceptsLock, rdPc, rdReq, rdIdx, rdView, iiRes>>
sessVars == <<currentIntercepts, interceptWaiters, currentAPIServers, currentMatchers>>
objVars == <<objInfo, objCancelled, objWg, objHandler, objMount, handlerAlive>>
chanVars == <<chanBuf, chanClosed>>
recVars == <<rPc, rSnap, rIdx, rAw, rErr>>
patVars == <<patAlive, patSnapshot, mountsDone>>
callVars == <<cPc, cReq, cRes, cGot, cCreated, cSent>>
rmVars == <<rmPc, rmQueue, rmName, rmLog, removeReqs>>

\* the traffic-manager
VARIABLES
  fiPc, fiAc, fiSpec,  \* a call of findIntercept and its arguments
  fiRes                \* what the call of findIntercept returned

VARIABLES
  cmData,              \* the entry of the workload in the agent-config map
  agents,              \* s.agents: the registered agent sessions
  sessActive,          \* agentSessionState.active of each agent session
  cmLog,               \* "inactive", "persist", "delete": what was done to the entry, in order
  eaPc, eaIn,          \* a call of ensureAgent and its arguments
  eaSce,               \* the sidecar that the call got or generated
  eaFes,               \* fes: the events that waitForAgents collected
  eaLast,              \* the event that waitForAgents received last
  eaSnap,              \* the agent snapshot that waitForAgents received last
  eaCtx,               \* "" | "timed out" | "canceled": why the context of the call is done
  eaRet,               \* what the call of ensureAgent returned
  wPc                  \* the goroutine of watchFailedInjectionEvents: "idle" | "select" | "send" | "stopped"

VARIABLES
  piCall,              \* the handler that was called and what GetWorkload returned to it
  piRet                \* what the handler returned to its caller

VARIABLES
  finalizers,          \* is.finalizers of an interceptState
  isLock,              \* the Mutex of the interceptState: "" | "addFinalizer" | "terminate"
  aPc, aFin,           \* a call of addFinalizer and its argument
  tPc, tIdx,           \* a call of terminate and the i of its loop
  tRan                 \* the finalizers that the call of terminate ran, with what they returned

findVars == <<fiPc, fiAc, fiSpec, fiRes>>
isVars == <<finalizers, isLock, aPc, aFin, tPc, tIdx, tRan>>
piVars == <<piCall, piRet>>
mapVars == <<cmData, agents, sessActive, cmLog>>
eaVars == <<eaPc, eaIn, eaSce, eaFes, eaLast, eaSnap, eaCtx, eaRet, wPc>>
mgrVars == <<findVars, mapVars, eaVars, piVars, isVars>>
vars == <<sessVars, objVars, chanVars, recVars, patVars, callVars, rmVars, panicked, mgrVars,
          readVars>>

PodKeys == {PodIPOfId(i) : i \in IDs}
RmProcs == Calls \cup {User}
NoRes == [err |-> "", info |-> NoInfo, via |-> ""]
NoGot == [key |-> "", fired |-> FALSE, info |-> NoInfo]
NoErr == [err |-> "", ctxDone |-> FALSE]

InitSession ==
  /\ currentIntercepts = [i \in IDs |-> 0]
  /\ interceptWaiters = [n \in Names |-> 0]
  /\ currentAPIServers = {}
  /\ currentMatchers = [i \in IDs |-> ""]
  /\ objInfo = [o \in Objs |-> NoInfo]
  /\ objCancelled = [o \in Objs |-> FALSE]
  /\ objWg = [o \in Objs |-> 0]
  /\ objHandler = [o \in Objs |-> ""]
  /\ objMount = [o \in Objs |-> NoMount]
  /\ handlerAlive = {}
  /\ chanBuf = [c \in Calls |-> <<>>]
  /\ chanClosed = [c \in Calls |-> FALSE]
  /\ rPc = "recv" /\ rSnap = <<>> /\ rIdx = 1 /\ rAw = 0 /\ rErr = NoErr
  /\ patAlive = [k \in PodKeys |-> 0]
  /\ patSnapshot = {}
  /\ mountsDone = [k \in PodKeys |-> "none"]
  /\ cPc = [c \in Calls |-> "idle"]
  /\ cReq = [c \in Calls |-> [name |-> "a", ns |-> "", agent |-> "wl",
                              targetHost |-> "127.0.0.1", targetPort |-> 0]]
  /\ cRes = [c \in Calls |-> NoRes]
  /\ cGot = [c \in Calls |-> NoGot]
  /\ cCreated = [c \in Calls |-> FALSE]
  /\ cSent = [c \in Calls |-> 0]
  /\ rmPc = [p \in RmProcs |-> "idle"]
  /\ rmQueue = [p \in RmProcs |-> <<>>]
  /\ rmName = [p \in RmProcs |-> ""]
  /\ rmLog = [p \in RmProcs |-> <<>>]
  /\ removeReqs = {}
  /\ panicked = FALSE
  /\ currentInterceptsLock = ""
  /\ rdPc = "idle"
  /\ rdReq = NoRead
  /\ rdIdx = 1
  /\ rdView = [i \in IDs |-> Unread]
  /\ iiRes = NoInterceptInfo

\* no call of the traffic-manager is in progress
InitFindIdle ==
  /\ fiPc = "idle"
  /\ fiAc = <<>>
  /\ fiSpec = NoSpec
  /\ fiRes = NoFound

\* an empty agent-config map, no agent, no call of ensureAgent
InitAgentIdle ==
  /\ cmData = NoEntry
  /\ agents = {}
  /\ sessActive = [a \in AgentSessions |-> FALSE]
  /\ cmLog = <<>>
  /\ eaPc = "idle"
  /\ eaIn = NoInput
  /\ eaSce = NoEntry
  /\ eaFes = <<>>
  /\ eaLast = NoEvent
  /\ wPc = "idle"
  /\ eaSnap = NoSnapshot
  /\ eaCtx = ""
  /\ eaRet = NoReturn
  /\ piCall = NoCall
  /\ piRet = NoResult

\* newInterceptState: no finalizer, the lock free, no call
InitInterceptState ==
  /\ finalizers = <<>>
  /\ isLock = ""
  /\ aPc = "idle"
  /\ aFin = 0
  /\ tPc = "idle"
  /\ tIdx = 0
  /\ tRan = <<>>

InitManager == InitFindIdle /\ InitAgentIdle /\ InitInterceptState

Init == InitSession /\ InitManager

(***************************************************************************)
(* reconcileAPIServers and its helpers                                     *)
(***************************************************************************)
RECURSIVE DigitsValue(_)
DigitsValue(s) ==
  IF s = <<>> THEN 0
  ELSE DigitsValue(SubSeq(s, 1, Len(s) - 1)) * 10 + s[Len(s)]

\* strconv.ParseUint(ps, 10, 16) succeeds
ParseUintOk(s) ==
  /\ s # <<>>
  /\ \A i \in DOMAIN s : s[i] \in 0..9
  /\ DigitsValue(s) <= 65535

\* the closure agentAPIPort: the declared port, 0 when unset or unparsable
agentAPIPort(ii) == IF ParseUintOk(ii.apiPortEnv) THEN DigitsValue(ii.apiPortEnv) ELSE 0

\* matcher.NewRequestFromMap succeeds
CompileOk(headers) == headers # "bad"

WantedIds(cur, info) ==
  { i \in IDs : /\ cur[i] # 0
                /\ info[cur[i]].disp = "ACTIVE"
                /\ agentAPIPort(info[cur[i]]) > 0 }

WantedPorts(cur, info) == { agentAPIPort(info[cur[i]]) : i \in WantedIds(cur, info) }

\* reconcileAPIServers without the loop that stops the stale listeners
reconcileAPIServersKeepsAll(cur, info) == currentAPIServers \cup WantedPorts(cur, info)

\* s.currentAPIServers after reconcileAPIServers
reconcileAPIServers(cur, info) ==
  LET wanted == WantedPorts(cur, info)
      kept == { p \in currentAPIServers : p \in wanted }
  IN  kept \cup { p \in wanted : p \notin kept }

\* reconcileAPIServers that compiles the matcher of every wanted id anew
reconcileMatchersRecompiles(cur, info) ==
  [ i \in IDs |->
      IF i \notin WantedIds(cur, info) THEN ""
      ELSE IF CompileOk(info[cur[i]].headers) THEN info[cur[i]].headers
      ELSE "" ]

\* s.currentMatchers after reconcileAPIServers (newMatcher for the new ids)
reconcileMatchers(cur, info) ==
  [ i \in IDs |->
      IF i \notin WantedIds(cur, info) THEN ""
      ELSE IF currentMatchers[i] # "" THEN currentMatchers[i]
      ELSE IF CompileOk(info[cur[i]].headers) THEN info[cur[i]].headers
      ELSE "" ]

(***************************************************************************)
(* The heap of intercept objects                                           *)
(***************************************************************************)
CurrentObjs == { currentIntercepts[i] : i \in { j \in IDs : currentIntercepts[j] # 0 } }

\* an object is live while something still refers to it
Live(o) ==
  \/ o \in CurrentObjs
  \/ \E k \in PodKeys : patAlive[k] = o
  \/ objWg[o] > 0
  \/ \E c \in Calls : \E j \in DOMAIN chanBuf[c] : chanBuf[c][j].obj = o
  \/ \E p \in RmProcs : \E j \in DOMAIN rmQueue[p] : rmQueue[p][j] = o
  \/ o \in handlerAlive

\* the fields of the objects after a step; an object nothing refers to any
\* more is garbage and its slot is blank again
Collect(info, canc, mount, handler) ==
  /\ objInfo' = [ o \in Objs |-> IF Live(o)' THEN info[o] ELSE NoInfo ]
  /\ objCancelled' = [ o \in Objs |-> IF Live(o)' THEN canc[o] ELSE FALSE ]
  /\ objMount' = [ o \in Objs |-> IF Live(o)' THEN mount[o] ELSE NoMount ]
  /\ objHandler' = [ o \in Objs |-> IF Live(o)' THEN handler[o] ELSE "" ]

CollectSame == Collect(objInfo, objCancelled, objMount, objHandler)

(***************************************************************************)
(* setCurrentIntercepts                                                    *)
(***************************************************************************)
\* the intercept object that the i:th record of the snapshot ends up in: the
\* one of the current set, or a new one.  The object of an id is modelled
\* in the slot of that id, so an id that left the current set comes back
\* only when nothing refers to its previous object any more.
ObjFor(iis, i) == iis[i].id

IsNew(iis, o) == \E i \in DOMAIN iis : currentIntercepts[iis[i].id] = 0 /\ ObjFor(iis, i) = o

\* NewIntercepts that keeps the entries of ids the snapshot no longer carries
NewInterceptsKeepsStale(iis) ==
  [ id \in IDs |->
      IF id \in SnapIds(iis)
      THEN ObjFor(iis, CHOOSE i \in DOMAIN iis : iis[i].id = id)
      ELSE currentIntercepts[id] ]

NewIntercepts(iis) ==
  [ id \in IDs |->
      IF id \in SnapIds(iis)
      THEN ObjFor(iis, CHOOSE i \in DOMAIN iis : iis[i].id = id)
      ELSE 0 ]

\* objects whose context setCurrentIntercepts cancels
Dropped(iis) == { o \in CurrentObjs : objInfo[o].id \notin SnapIds(iis) }

\* setCurrentIntercepts that does not look for a waiter of the name of a new
\* intercept
setCurrentInterceptsIgnoresWaiter(iis) ==
  LET cur == NewIntercepts(iis)
      rec(o) == iis[CHOOSE i \in DOMAIN iis : ObjFor(iis, i) = o]
      info == [ o \in Objs |->
                 IF \E i \in DOMAIN iis : ObjFor(iis, i) = o THEN rec(o) ELSE objInfo[o] ]
      mount == [ o \in Objs |-> IF IsNew(iis, o) THEN NoMount ELSE objMount[o] ]
      canc == [ o \in Objs |-> objCancelled[o] \/ o \in Dropped(iis) ]
  IN
  /\ \A o \in Objs : IsNew(iis, o) => ~Live(o)
  /\ currentIntercepts' = cur
  /\ currentAPIServers' = reconcileAPIServers(cur, info)
  /\ currentMatchers' = reconcileMatchers(cur, info)
  /\ Collect(info, canc, mount, objHandler)

\* setCurrentIntercepts that makes a new object for every record, also for
\* an id of the current set
setCurrentInterceptsRecreates(iis) ==
  LET cur == NewIntercepts(iis)
      inSnap(o) == \E i \in DOMAIN iis : ObjFor(iis, i) = o
      rec(o) == iis[CHOOSE i \in DOMAIN iis : ObjFor(iis, i) = o]
      info == [ o \in Objs |-> IF inSnap(o) THEN rec(o) ELSE objInfo[o] ]
      mount == [ o \in Objs |->
                  IF inSnap(o)
                  THEN IF interceptWaiters[rec(o).name] # 0
                       THEN MountOfCall(interceptWaiters[rec(o).name])
                       ELSE NoMount
                  ELSE objMount[o] ]
      canc == [ o \in Objs |-> ~inSnap(o) /\ (objCancelled[o] \/ o \in Dropped(iis)) ]
      handler == [ o \in Objs |-> IF inSnap(o) THEN "" ELSE objHandler[o] ]
  IN
  /\ \A o \in Objs : IsNew(iis, o) => ~Live(o)
  /\ currentIntercepts' = cur
  /\ currentAPIServers' = reconcileAPIServers(cur, info)
  /\ currentMatchers' = reconcileMatchers(cur, info)
  /\ Collect(info, canc, mount, handler)

setCurrentIntercepts(iis) ==
  LET cur == NewIntercepts(iis)
      rec(o) == iis[CHOOSE i \in DOMAIN iis : ObjFor(iis, i) = o]
      info == [ o \in Objs |->
                 IF \E i \in DOMAIN iis : ObjFor(iis, i) = o THEN rec(o) ELSE objInfo[o] ]
      mount == [ o \in Objs |->
                  IF IsNew(iis, o)
                  THEN IF interceptWaiters[rec(o).name] # 0
                       THEN MountOfCall(interceptWaiters[rec(o).name])
                       ELSE NoMount
                  ELSE objMount[o] ]
      canc == [ o \in Objs |-> objCancelled[o] \/ o \in Dropped(iis) ]
  IN
  /\ \A o \in Objs : IsNew(iis, o) => ~Live(o)
  /\ currentIntercepts' = cur
  /\ currentAPIServers' = reconcileAPIServers(cur, info)
  /\ currentMatchers' = reconcileMatchers(cur, info)
  /\ Collect(info, canc, mount, objHandler)

(***************************************************************************)
(* watchInterceptsLoop and handleInterceptSnapshot                         *)
(***************************************************************************)
\* the loop over the snapshot without the "continue" for WAITING records
NextIdxEvery(s, i) == i

\* index of the first record at or after i that is not WAITING
RECURSIVE NextIdx(_, _)
NextIdx(s, i) ==
  IF i > Len(s) THEN i
  ELSE IF s[i].disp # "WAITING" THEN i
  ELSE NextIdx(s, i + 1)

\* the key under which the pod access of an intercept is tracked
PodAccessKey(o) == objInfo[o].podIP

\* WatchRecv that also stops the handlers of the intercepts that the
\* snapshot no longer carries
WatchRecvStopsHandlers(iis) ==
  /\ ~panicked
  /\ currentInterceptsLock = ""
  /\ UNCHANGED <<mgrVars, readVars>>
  /\ rPc = "recv"
  /\ handlerAlive' = handlerAlive \ Dropped(iis)
  /\ UNCHANGED <<interceptWaiters, objWg, chanVars, rAw,
                 patAlive, mountsDone, callVars, rmVars, panicked>>
  /\ setCurrentIntercepts(iis)
  /\ patSnapshot' = {}
  /\ rSnap' = iis /\ rIdx' = NextIdx(iis, 1) /\ rErr' = NoErr /\ rPc' = "iter"

\* stream.Recv() returned a snapshot: setCurrentIntercepts and pat.initSnapshot
WatchRecv(iis) ==
  /\ ~panicked
  /\ currentInterceptsLock = ""
  /\ UNCHANGED <<mgrVars, readVars>>
  /\ rPc = "recv"
  /\ UNCHANGED <<interceptWaiters, objWg, handlerAlive, chanVars, rAw,
                 patAlive, mountsDone, callVars, rmVars, panicked>>
  /\ setCurrentIntercepts(iis)
  /\ patSnapshot' = {}
  /\ rSnap' = iis /\ rIdx' = NextIdx(iis, 1) /\ rErr' = NoErr /\ rPc' = "iter"

\* the value watchInterceptsLoop returns after a failed Recv (lines 150-154)
LoopReturn(e) == IF e.ctxDone \/ e.err = "eof" THEN "done" ELSE "failed"

\* WatchRecvError that returns without handling an empty snapshot
WatchRecvErrorNoReconcile(kind, ctxDone) ==
  /\ ~panicked
  /\ currentInterceptsLock = ""
  /\ UNCHANGED <<mgrVars, readVars>>
  /\ rPc = "recv"
  /\ rPc' = LoopReturn([err |-> kind, ctxDone |-> ctxDone])
  /\ rErr' = [err |-> kind, ctxDone |-> ctxDone]
  /\ rSnap' = <<>> /\ rIdx' = 1
  /\ UNCHANGED <<sessVars, objVars, chanVars, rAw, patVars, callVars, rmVars, panicked>>

\* stream.Recv() failed (lines 146-149): the snapshot is handled as an empty
\* one; ctxDone is ctx.Err() != nil
WatchRecvError(kind, ctxDone) ==
  /\ ~panicked
  /\ currentInterceptsLock = ""
  /\ UNCHANGED <<mgrVars, readVars>>
  /\ rPc = "recv"
  /\ UNCHANGED <<interceptWaiters, objWg, handlerAlive, chanVars, rAw,
                 patAlive, mountsDone, callVars, rmVars, panicked>>
  /\ setCurrentIntercepts(<<>>)
  /\ patSnapshot' = {}
  /\ rSnap' = <<>> /\ rIdx' = 1 /\ rPc' = "iter"
  /\ rErr' = [err |-> kind, ctxDone |-> ctxDone]

\* TakeWaiter that leaves the waiter in the registry
TakeWaiterKeepsWaiter ==
  /\ ~panicked
  /\ currentInterceptsLock = ""
  /\ UNCHANGED <<mgrVars, readVars>>
  /\ rPc = "iter" /\ rIdx <= Len(rSnap)
  /\ rAw' = interceptWaiters[rSnap[rIdx].name]
  /\ rPc' = "notify"
  /\ UNCHANGED <<sessVars, objVars, chanVars, rSnap, rIdx, rErr, patVars, callVars,
                 rmVars, panicked>>

\* lines 170-176: look up the intercept and take the waiter of its name
TakeWaiter ==
  /\ ~panicked
  /\ currentInterceptsLock = ""
  /\ UNCHANGED <<mgrVars, readVars>>
  /\ rPc = "iter" /\ rIdx <= Len(rSnap)
  /\ rAw' = interceptWaiters[rSnap[rIdx].name]
  /\ interceptWaiters' = [interceptWaiters EXCEPT ![rSnap[rIdx].name] = 0]
  /\ rPc' = "notify"
  /\ UNCHANGED <<currentIntercepts, currentAPIServers, currentMatchers, objVars, chanVars,
                 rSnap, rIdx, rErr, patVars, callVars, rmVars, panicked>>

\* RecordErr without the comparison of the namespaces
RecordErrIgnoresNamespace(ii) == ii.disp # "ACTIVE"

\* RecordErr without the default case of the switch
RecordErrActiveOnly(ii) == ii.disp = "ACTIVE" /\ ii.ns # SessionNamespace

\* lines 178-186: the error reported for a record that is not WAITING
RecordErr(ii) ==
  IF ii.disp = "ACTIVE" THEN ii.ns # SessionNamespace ELSE TRUE

\* the readiness channel that a result or a call holds has been closed
MountsDoneFired(h) == h.fired \/ (h.key # "" /\ mountsDone[h.key] = "closed")

\* pat.getOrCreateMountsDone
getOrCreateMountsDone(md, k) == IF md[k] = "none" THEN [md EXCEPT ![k] = "open"] ELSE md

\* pat.start: reuse or start the session of the key and mark it refreshed
PatStart(o, md) ==
  LET k == PodAccessKey(o) IN
  IF k \in patSnapshot
  THEN /\ UNCHANGED <<patAlive, patSnapshot, objWg>>
       /\ mountsDone' = md
  ELSE /\ patSnapshot' = patSnapshot \cup {k}
       /\ IF patAlive[k] # 0
          THEN /\ UNCHANGED <<patAlive, objWg>>
               /\ mountsDone' = md
          ELSE /\ objWg[o] < MaxWg
               /\ patAlive' = [patAlive EXCEPT ![k] = o]
               \* a worker in a scope that is already cancelled returns at once
               /\ objWg' = IF objCancelled[o] THEN objWg ELSE [objWg EXCEPT ![o] = @ + 1]
               /\ mountsDone' = getOrCreateMountsDone(md, k)

\* lines 178-218: notify the waiter and start the pod access
Notify ==
  /\ ~panicked
  /\ UNCHANGED <<mgrVars, readVars>>
  /\ rPc = "notify"
  /\ LET ii == rSnap[rIdx]
         ic == currentIntercepts[ii.id]
         err == RecordErr(ii)
         k == PodAccessKey(ic)
         md == IF rAw # 0 THEN getOrCreateMountsDone(mountsDone, k) ELSE mountsDone
         ir == [obj |-> ic, err |-> err, key |-> k, fired |-> FALSE]
     IN
     IF rAw # 0 /\ chanClosed[rAw]
     THEN \* send on a closed channel
          /\ panicked' = TRUE
          /\ UNCHANGED <<sessVars, objVars, chanVars, recVars, patVars, callVars, rmVars>>
     ELSE /\ IF rAw # 0 /\ Len(chanBuf[rAw]) < WaitChCap
             THEN /\ cSent' = [cSent EXCEPT ![rAw] = @ + 1]
                  /\ chanBuf' = IF cPc[rAw] = "done"   \* no receiver is left
                                THEN chanBuf
                                ELSE [chanBuf EXCEPT ![rAw] = Append(@, ir)]
             ELSE UNCHANGED <<chanBuf, cSent>>
          /\ IF err
             THEN /\ mountsDone' = md
                  /\ UNCHANGED <<patAlive, patSnapshot, objWg>>
             ELSE PatStart(ic, md)
          /\ rIdx' = NextIdx(rSnap, rIdx + 1)
          /\ rAw' = 0
          /\ rPc' = "iter"
          /\ UNCHANGED <<sessVars, objInfo, objCancelled, objHandler, objMount,
                         handlerAlive, chanClosed, rSnap, rErr, cPc, cReq, cRes, cGot,
                         cCreated, rmVars, panicked>>

\* the keys whose session pat.cancelUnwanted stops
Unwanted == { k \in PodKeys : patAlive[k] # 0 /\ k \notin patSnapshot }

\* a holder of a readiness channel that the tracker forgets keeps that channel
DetachFrom(h, keys) ==
  IF h.key \in keys
  THEN [h EXCEPT !.fired = @ \/ mountsDone[h.key] = "closed", !.key = ""]
  ELSE h

Detach(h) == DetachFrom(h, Unwanted)

\* pat.cancelUnwanted, then the next Recv or the return of the loop: "done" is
\* the return of nil, "failed" the return of an error
CancelUnwanted ==
  /\ ~panicked
  /\ UNCHANGED <<mgrVars, readVars>>
  /\ rPc = "iter" /\ rIdx > Len(rSnap)
  /\ patAlive' = [k \in PodKeys |-> IF k \in Unwanted THEN 0 ELSE patAlive[k]]
  /\ mountsDone' = [k \in PodKeys |-> IF k \in Unwanted THEN "none" ELSE mountsDone[k]]
  /\ chanBuf' = [c \in Calls |-> [j \in DOMAIN chanBuf[c] |-> Detach(chanBuf[c][j])]]
  /\ cGot' = [c \in Calls |-> Detach(cGot[c])]
  /\ rPc' = IF rErr.err = "" THEN "recv" ELSE LoopReturn(rErr)
  /\ UNCHANGED <<sessVars, objWg, handlerAlive, chanClosed, rSnap, rIdx, rAw, rErr, patSnapshot,
                 cPc, cReq, cRes, cCreated, cSent, rmVars, panicked>>
  /\ CollectSame

\* runWithRetry calls watchInterceptsLoop again while the session lives: a new
\* stream and a new podAccessTracker (lines 140-144)
Reconnect ==
  /\ ~panicked
  /\ UNCHANGED <<mgrVars, readVars>>
  /\ rPc \in {"done", "failed"} /\ ~rErr.ctxDone
  /\ rPc' = "recv" /\ rErr' = NoErr
  /\ patSnapshot' = {}
  /\ patAlive' = [k \in PodKeys |-> 0]
  /\ mountsDone' = [k \in PodKeys |-> "none"]
  /\ chanBuf' = [c \in Calls |-> [j \in DOMAIN chanBuf[c] |-> DetachFrom(chanBuf[c][j], PodKeys)]]
  /\ cGot' = [c \in Calls |-> DetachFrom(cGot[c], PodKeys)]
  /\ UNCHANGED <<sessVars, objWg, handlerAlive, chanClosed, rSnap, rIdx, rAw,
                 cPc, cReq, cRes, cCreated, cSent, rmVars, panicked>>
  /\ CollectSame

\* the mount/bridge session of a key becomes usable
MountReady(k) ==
  /\ ~panicked
  /\ UNCHANGED <<mgrVars, readVars>>
  /\ patAlive[k] # 0 /\ ~objCancelled[patAlive[k]]
  /\ mountsDone[k] = "open"
  /\ mountsDone' = [mountsDone EXCEPT ![k] = "closed"]
  /\ UNCHANGED <<sessVars, objVars, chanVars, recVars, patAlive, patSnapshot,
                 callVars, rmVars, panicked>>

\* a worker started in the scope of an intercept ends after it was cancelled
WorkDone(o) ==
  /\ ~panicked
  /\ UNCHANGED <<mgrVars, readVars>>
  /\ objWg[o] > 0
  /\ \/ objCancelled[o]
     \/ objWg[o] > Cardinality({ k \in PodKeys : patAlive[k] = o })
  /\ objWg' = [objWg EXCEPT ![o] = @ - 1]
  /\ UNCHANGED <<sessVars, handlerAlive, chanVars, recVars, patVars, callVars, rmVars, panicked>>
  /\ CollectSame

(***************************************************************************)
(* AddIntercept                                                            *)
(***************************************************************************)
\* the results ensureNoInterceptConflict can return; the map is ranged over in
\* any order, so every conflicting entry can be the one that is found first
ensureNoInterceptConflict(spec) ==
  { [err |-> "ALREADY_EXISTS", info |-> NoInfo, via |-> ""] :
      o \in { x \in CurrentObjs : objInfo[x].name = spec.name } }
  \cup
  { [err |-> "LOCAL_TARGET_IN_USE", info |-> objInfo[o], via |-> ""] :
      o \in { x \in CurrentObjs : /\ objInfo[x].name # spec.name
                                  /\ spec.targetPort # 0
                                  /\ objInfo[x].targetPort = spec.targetPort
                                  /\ objInfo[x].targetHost = spec.targetHost } }

Return(c, res) ==
  /\ cRes' = [cRes EXCEPT ![c] = res]
  /\ cPc' = [cPc EXCEPT ![c] = "done"]

\* CanIntercept up to the PrepareIntercept request (lines 354-377)
CanInterceptStart(c, req) ==
  /\ ~panicked
  /\ UNCHANGED <<mgrVars, readVars>>
  /\ cPc[c] = "idle"
  /\ LET spec == [req EXCEPT !.ns = IF req.ns = "" THEN SessionNamespace ELSE req.ns] IN
     /\ cReq' = [cReq EXCEPT ![c] = spec]
     /\ IF spec.ns # SessionNamespace
        THEN Return(c, [err |-> "NAMESPACE_AMBIGUITY", info |-> NoInfo, via |-> ""])
        ELSE IF ensureNoInterceptConflict(spec) # {}
        THEN \E er \in ensureNoInterceptConflict(spec) : Return(c, er)
        ELSE IF spec.agent = ""
        THEN Return(c, [err |-> "UNSPECIFIED", info |-> NoInfo, via |-> ""])
        ELSE /\ cPc' = [cPc EXCEPT ![c] = "prepare"]
             /\ UNCHANGED cRes
  /\ UNCHANGED <<sessVars, objVars, chanVars, recVars, patVars, cGot, cCreated, cSent,
                 rmVars, panicked>>

PrepareOutcomes ==
  [kind : {"rpc_error", "pi_error"}, containerPort : {0}, portIdOk : {TRUE}]
  \cup [kind : {"ok"}, containerPort : Ports, portIdOk : BOOLEAN]

\* the reply of PrepareIntercept, the repeated conflict check (lines 377-392)
\* and the port identifier (lines 426-436)
PrepareResponse(c, pi) ==
  /\ ~panicked
  /\ UNCHANGED <<mgrVars, readVars>>
  /\ cPc[c] = "prepare"
  /\ LET resolve == pi.kind = "ok" /\ cReq[c].targetPort = 0
         spec == IF resolve THEN [cReq[c] EXCEPT !.targetPort = pi.containerPort]
                 ELSE cReq[c]
     IN
     /\ cReq' = [cReq EXCEPT ![c] = spec]
     /\ IF pi.kind # "ok"
        THEN Return(c, [err |-> "TRAFFIC_MANAGER_ERROR", info |-> NoInfo, via |-> ""])
        ELSE IF resolve /\ ensureNoInterceptConflict(spec) # {}
        THEN \E er \in ensureNoInterceptConflict(spec) : Return(c, er)
        ELSE IF ~pi.portIdOk
        THEN Return(c, [err |-> "MISCONFIGURED_WORKLOAD", info |-> NoInfo, via |-> ""])
        ELSE /\ cPc' = [cPc EXCEPT ![c] = "register"]
             /\ UNCHANGED cRes
  /\ UNCHANGED <<sessVars, objVars, chanVars, recVars, patVars, cGot, cCreated, cSent,
                 rmVars, panicked>>

\* lines 453-461: the waiter is stored under the name of the intercept
RegisterWaiter(c) ==
  /\ ~panicked
  /\ UNCHANGED <<mgrVars, readVars>>
  /\ cPc[c] = "register"
  /\ interceptWaiters' = [interceptWaiters EXCEPT ![cReq[c].name] = c]
  /\ cPc' = [cPc EXCEPT ![c] = "create"]
  /\ UNCHANGED <<currentIntercepts, currentAPIServers, currentMatchers, objVars, chanVars,
                 recVars, patVars, cReq, cRes, cGot, cCreated, cSent, rmVars, panicked>>

\* lines 471-477: the reply of the manager to CreateIntercept
CreateResponse(c, ok) ==
  /\ ~panicked
  /\ UNCHANGED <<mgrVars, readVars>>
  /\ cPc[c] = "create"
  /\ IF ok
     THEN /\ cCreated' = [cCreated EXCEPT ![c] = TRUE]
          /\ cPc' = [cPc EXCEPT ![c] = "wait"]
          /\ UNCHANGED cRes
     ELSE /\ cRes' = [cRes EXCEPT ![c] = [err |-> "TRAFFIC_MANAGER_ERROR", info |-> NoInfo, via |-> ""]]
          /\ cPc' = [cPc EXCEPT ![c] = "cleanup"]
          /\ UNCHANGED cCreated
  /\ UNCHANGED <<sessVars, objVars, chanVars, recVars, patVars, cReq, cGot, cSent,
                 rmVars, panicked>>

\* lines 498-499 and 511-512: the deadline of the call passes or its caller
\* cancels it, and the case <-c.Done() of either select is taken
WaitDone(c) ==
  /\ ~panicked
  /\ UNCHANGED <<mgrVars, readVars>>
  /\ cPc[c] \in {"wait", "mounts"}
  /\ cRes' = [cRes EXCEPT ![c] = [err |-> "FAILED_TO_ESTABLISH", info |-> NoInfo, via |-> "done"]]
  /\ cPc' = [cPc EXCEPT ![c] = "remove"]
  /\ cGot' = [cGot EXCEPT ![c] = NoGot]
  /\ UNCHANGED <<sessVars, objVars, chanVars, recVars, patVars, cReq, cCreated, cSent,
                 rmVars, panicked>>

\* lines 500-509: the case wr := <-waitCh
WaitRecv(c) ==
  /\ ~panicked
  /\ UNCHANGED <<mgrVars, readVars>>
  /\ cPc[c] = "wait" /\ chanBuf[c] # <<>>
  /\ LET wr == Head(chanBuf[c]) IN
     /\ chanBuf' = [chanBuf EXCEPT ![c] = Tail(@)]
     /\ IF wr.err
        THEN /\ cRes' = [cRes EXCEPT ![c] = [err |-> "FAILED_TO_ESTABLISH", info |-> NoInfo,
                                             via |-> "waitCh"]]
             /\ cPc' = [cPc EXCEPT ![c] = "remove"]
             /\ UNCHANGED cGot
        ELSE IF objInfo[wr.obj].disp # "ACTIVE"
        THEN UNCHANGED <<cRes, cPc, cGot>>
        ELSE /\ cGot' = [cGot EXCEPT ![c] = [key |-> wr.key, fired |-> wr.fired,
                                             info |-> objInfo[wr.obj]]]
             /\ cPc' = [cPc EXCEPT ![c] = "mounts"]
             /\ UNCHANGED cRes
  /\ UNCHANGED <<sessVars, objWg, handlerAlive, chanClosed, recVars, patVars, cReq,
                 cCreated, cSent, rmVars, panicked>>
  /\ CollectSame

\* WaitMounts that does not wait for wr.mountsDone
WaitMountsNoReadiness(c) ==
  /\ ~panicked
  /\ UNCHANGED <<mgrVars, readVars>>
  /\ cPc[c] = "mounts"
  /\ cRes' = [cRes EXCEPT ![c] = [err |-> "SUCCESS", info |-> cGot[c].info, via |-> "mountsDone"]]
  /\ cPc' = [cPc EXCEPT ![c] = "cleanup"]
  /\ cGot' = [cGot EXCEPT ![c] = NoGot]
  /\ UNCHANGED <<sessVars, objVars, chanVars, recVars, patVars, cReq, cCreated, cSent,
                 rmVars, panicked>>

\* lines 513-519: the case <-wr.mountsDone, InterceptEpilog and success
WaitMounts(c) ==
  /\ ~panicked
  /\ UNCHANGED <<mgrVars, readVars>>
  /\ cPc[c] = "mounts" /\ MountsDoneFired(cGot[c])
  /\ cRes' = [cRes EXCEPT ![c] = [err |-> "SUCCESS", info |-> cGot[c].info, via |-> "mountsDone"]]
  /\ cPc' = [cPc EXCEPT ![c] = "cleanup"]
  /\ cGot' = [cGot EXCEPT ![c] = NoGot]
  /\ UNCHANGED <<sessVars, objVars, chanVars, recVars, patVars, cReq, cCreated, cSent,
                 rmVars, panicked>>

\* getInterceptByName that takes any current intercept for the one asked for
getInterceptByNameAny(name) == CurrentObjs

\* getInterceptByName: any entry of that name can be the first one found
getInterceptByName(name) == { o \in CurrentObjs : objInfo[o].name = name }

\* lines 480-492 and 533-541: the deferred RemoveIntercept of a failed call
RemoveFailed(c) ==
  /\ ~panicked
  /\ UNCHANGED <<mgrVars, readVars>>
  /\ cPc[c] = "remove"
  /\ IF getInterceptByName(cReq[c].name) = {}
     THEN /\ cPc' = [cPc EXCEPT ![c] = "cleanup"]
          /\ UNCHANGED rmVars
     ELSE /\ \E o \in getInterceptByName(cReq[c].name) :
               rmQueue' = [rmQueue EXCEPT ![c] = <<o>>]
          /\ rmPc' = [rmPc EXCEPT ![c] = "stop"]
          /\ rmLog' = [rmLog EXCEPT ![c] = <<>>]
          /\ cPc' = [cPc EXCEPT ![c] = "removing"]
          /\ UNCHANGED <<rmName, removeReqs>>
  /\ UNCHANGED <<sessVars, objVars, chanVars, recVars, patVars, cReq, cRes, cGot,
                 cCreated, cSent, panicked>>

\* lines 462-469: the deferred removal of the waiter
CleanupWaiter(c) ==
  /\ ~panicked
  /\ UNCHANGED <<mgrVars, readVars>>
  /\ cPc[c] = "cleanup"
  /\ IF interceptWaiters[cReq[c].name] # 0
     THEN /\ interceptWaiters' = [interceptWaiters EXCEPT ![cReq[c].name] = 0]
          /\ chanClosed' = [chanClosed EXCEPT ![c] = TRUE]
     ELSE UNCHANGED <<interceptWaiters, chanClosed>>
  /\ cPc' = [cPc EXCEPT ![c] = "done"]
  /\ chanBuf' = [chanBuf EXCEPT ![c] = <<>>]   \* the call returned: nothing reads it
  /\ UNCHANGED <<currentIntercepts, currentAPIServers, currentMatchers, objWg, handlerAlive,
                 recVars, patVars, cReq, cRes, cGot, cCreated, cSent, rmVars, panicked>>
  /\ CollectSame

(***************************************************************************)
(* RemoveIntercept, ClearIngestsAndIntercepts, removeIntercept             *)
(***************************************************************************)
\* proc.RunningInContainer() && RootSessionInProcess()
InContainerWithRoot == FALSE

\* maps.ToSortedSlice(s.currentIntercepts)
RECURSIVE SortedObjs(_)
SortedObjs(ids) ==
  IF ids = {} THEN <<>>
  ELSE LET m == CHOOSE i \in ids : \A j \in ids : i <= j
       IN  <<currentIntercepts[m]>> \o SortedObjs(ids \ {m})

getCurrentIntercepts == SortedObjs({ i \in IDs : currentIntercepts[i] # 0 })

\* RemoveIntercept(name), lines 533-541: without an intercept of the name
\* it logs that the intercept was already removed and returns nil, else it
\* goes on with removeIntercept
RemoveIntercept(name) ==
  /\ ~panicked
  /\ UNCHANGED <<mgrVars, readVars>>
  /\ rmPc[User] = "idle"
  /\ IF getInterceptByName(name) = {}
     THEN /\ rmLog' = [rmLog EXCEPT ![User] = <<"already removed", name>>]
          /\ UNCHANGED <<rmPc, rmQueue>>
     ELSE /\ \E o \in getInterceptByName(name) : rmQueue' = [rmQueue EXCEPT ![User] = <<o>>]
          /\ rmPc' = [rmPc EXCEPT ![User] = "stop"]
          /\ rmLog' = [rmLog EXCEPT ![User] = <<>>]
  /\ UNCHANGED <<sessVars, objVars, chanVars, recVars, patVars, callVars, rmName,
                 removeReqs, panicked>>

\* ClearIngestsAndIntercepts, lines 675-682
ClearIngestsAndIntercepts ==
  /\ ~panicked
  /\ UNCHANGED <<mgrVars, readVars>>
  /\ rmPc[User] = "idle"
  /\ getCurrentIntercepts # <<>>
  /\ rmQueue' = [rmQueue EXCEPT ![User] = getCurrentIntercepts]
  /\ rmPc' = [rmPc EXCEPT ![User] = "stop"]
  /\ rmLog' = [rmLog EXCEPT ![User] = <<>>]
  /\ UNCHANGED <<sessVars, objVars, chanVars, recVars, patVars, callVars, rmName,
                 removeReqs, panicked>>

\* stopHandler, lines 561-581
stopHandler(o) ==
  IF ~InContainerWithRoot /\ objHandler[o] # ""
  THEN handlerAlive \ {o}
  ELSE handlerAlive

\* removeIntercept, lines 544-545
RmStop(p) ==
  /\ ~panicked
  /\ UNCHANGED <<mgrVars, readVars>>
  /\ rmPc[p] = "stop"
  /\ rmName' = [rmName EXCEPT ![p] = objInfo[Head(rmQueue[p])].name]
  /\ handlerAlive' = stopHandler(Head(rmQueue[p]))
  /\ rmLog' = [rmLog EXCEPT ![p] = <<"stop">>]
  /\ rmPc' = [rmPc EXCEPT ![p] = "cancel"]
  /\ UNCHANGED <<sessVars, objWg, chanVars, recVars, patVars, callVars, rmQueue,
                 removeReqs, panicked>>
  /\ CollectSame

\* removeIntercept, line 548
RmCancel(p) ==
  /\ ~panicked
  /\ UNCHANGED <<mgrVars, readVars>>
  /\ rmPc[p] = "cancel"
  /\ objCancelled' = [objCancelled EXCEPT ![Head(rmQueue[p])] = TRUE]
  /\ rmLog' = [rmLog EXCEPT ![p] = Append(@, "cancel")]
  /\ rmPc' = [rmPc EXCEPT ![p] = "wait"]
  /\ UNCHANGED <<sessVars, objInfo, objWg, objHandler, objMount, handlerAlive,
                 chanVars, recVars, patVars, callVars, rmQueue, rmName, removeReqs, panicked>>

\* RmWait without ic.wg.Wait()
RmWaitNoDrain(p) ==
  /\ ~panicked
  /\ UNCHANGED <<mgrVars, readVars>>
  /\ rmPc[p] = "wait"
  /\ rmLog' = [rmLog EXCEPT ![p] = Append(@, "drained")]
  /\ rmPc' = [rmPc EXCEPT ![p] = "send"]
  /\ UNCHANGED <<sessVars, objVars, chanVars, recVars, patVars, callVars, rmQueue, rmName,
                 removeReqs, panicked>>

\* removeIntercept, line 549: ic.wg.Wait() returns
RmWait(p) ==
  /\ ~panicked
  /\ UNCHANGED <<mgrVars, readVars>>
  /\ rmPc[p] = "wait"
  /\ objWg[Head(rmQueue[p])] = 0
  /\ rmLog' = [rmLog EXCEPT ![p] = Append(@, "drained")]
  /\ rmPc' = [rmPc EXCEPT ![p] = "send"]
  /\ UNCHANGED <<sessVars, objVars, chanVars, recVars, patVars, callVars, rmQueue, rmName,
                 removeReqs, panicked>>

\* removeIntercept, lines 551-558: the request to the manager and its reply;
\* then the caller goes on (lines 488-491, 540, 678-682)
RmSend(p, reply) ==
  /\ ~panicked
  /\ UNCHANGED <<mgrVars, readVars>>
  /\ rmPc[p] = "send"
  /\ removeReqs' = IF p \in Calls THEN removeReqs \cup {<<p, rmName[p]>>} ELSE removeReqs
  /\ rmLog' = [rmLog EXCEPT ![p] = Append(@, "send")]
  /\ rmName' = [rmName EXCEPT ![p] = ""]
  /\ LET rest == IF reply = "error" THEN <<>> ELSE Tail(rmQueue[p]) IN
     /\ rmQueue' = [rmQueue EXCEPT ![p] = rest]
     /\ rmPc' = [rmPc EXCEPT ![p] = IF rest = <<>> THEN "idle" ELSE "stop"]
  /\ cPc' = IF p \in Calls THEN [cPc EXCEPT ![p] = "cleanup"] ELSE cPc
  /\ UNCHANGED <<sessVars, objWg, handlerAlive, chanVars, recVars, patVars, cReq, cRes, cGot,
                 cCreated, cSent, panicked>>
  /\ CollectSame

\* AddInterceptor, lines 585-608 (intercepts only)
AddInterceptor(id, kind) ==
  /\ ~panicked
  /\ UNCHANGED <<mgrVars, readVars>>
  /\ currentIntercepts[id] # 0
  /\ objHandler' = [objHandler EXCEPT ![currentIntercepts[id]] = kind]
  /\ handlerAlive' = handlerAlive \cup {currentIntercepts[id]}
  /\ UNCHANGED <<sessVars, objInfo, objCancelled, objWg, objMount, chanVars,
                 recVars, patVars, callVars, rmVars, panicked>>

\* RemoveInterceptor, lines 610-625 (intercepts only)
RemoveInterceptor(id) ==
  /\ ~panicked
  /\ UNCHANGED <<mgrVars, readVars>>
  /\ currentIntercepts[id] # 0
  /\ objHandler' = [objHandler EXCEPT ![currentIntercepts[id]] = ""]
  /\ UNCHANGED <<sessVars, objInfo, objCancelled, objWg, objMount, handlerAlive,
                 chanVars, recVars, patVars, callVars, rmVars, panicked>>

(***************************************************************************)
(* The readers of the intercept set                                        *)
(***************************************************************************)
\* what the maps of the session hold under an id
Entry(id) ==
  [obj |-> currentIntercepts[id],
   info |-> IF currentIntercepts[id] # 0 THEN objInfo[currentIntercepts[id]] ELSE NoInfo,
   matcher |-> currentMatchers[id]]

\* the reader has looked at everything that it looks at
ReadFinished == rdIdx \notin IDs

\* requestMatcher.Matches: the matcher of a header specification matches the
\* requests that carry these headers
Matches(m, path, headers) == headers = m

\* InterceptInfo that takes every registered matcher for a match
InterceptInfoAnyMatcher(am, req) ==
  IF am = ""
  THEN [NoInterceptInfo EXCEPT !.returned = TRUE]
  ELSE [NoInterceptInfo EXCEPT !.returned = TRUE, !.intercepted = TRUE,
                               !.metadata = MetadataOfId(req.callerID)]

\* the switch of InterceptInfo on the matcher am of the caller
InterceptInfo(am, req) ==
  IF am = ""
  THEN [NoInterceptInfo EXCEPT !.returned = TRUE]
  ELSE IF Matches(am, req.path, req.headers)
  THEN [NoInterceptInfo EXCEPT !.returned = TRUE, !.intercepted = TRUE,
                               !.metadata = MetadataOfId(req.callerID)]
  ELSE [NoInterceptInfo EXCEPT !.returned = TRUE]

\* a reader that starts to read without the lock
ReadLockNoLock(req) ==
  /\ ~panicked
  /\ rdPc = "idle"
  /\ rdPc' = "locked"
  /\ rdReq' = req
  /\ rdIdx' = IF req.kind = "InterceptInfo" THEN req.callerID ELSE 1
  /\ UNCHANGED <<currentInterceptsLock, rdView, iiRes>>
  /\ UNCHANGED <<sessVars, objVars, chanVars, recVars, patVars, callVars, rmVars, panicked,
                 mgrVars>>

\* a reader takes the lock
ReadLock(req) ==
  /\ ~panicked
  /\ rdPc = "idle"
  /\ currentInterceptsLock = ""
  /\ currentInterceptsLock' = "reader"
  /\ rdPc' = "locked"
  /\ rdReq' = req
  /\ rdIdx' = IF req.kind = "InterceptInfo" THEN req.callerID ELSE 1
  /\ UNCHANGED <<rdView, iiRes>>
  /\ UNCHANGED <<sessVars, objVars, chanVars, recVars, patVars, callVars, rmVars, panicked,
                 mgrVars>>

\* the reader looks at the next id: the copy of getCurrentIntercepts takes
\* every entry, the loops of getInterceptByName and ensureNoInterceptConflict
\* end at an intercept of the name, InterceptInfo looks up the matcher of the
\* caller
ReadNext ==
  /\ ~panicked
  /\ rdPc = "locked"
  /\ ~ReadFinished
  /\ rdView' = [rdView EXCEPT ![rdIdx] = Entry(rdIdx)]
  /\ iiRes' = IF rdReq.kind = "InterceptInfo"
              THEN InterceptInfo(currentMatchers[rdIdx], rdReq)
              ELSE iiRes
  /\ rdIdx' = IF \/ rdReq.kind = "InterceptInfo"
                 \/ /\ rdReq.kind \in {"getInterceptByName", "ensureNoInterceptConflict"}
                    /\ Entry(rdIdx).obj # 0
                    /\ Entry(rdIdx).info.name = rdReq.name
              THEN 0
              ELSE IF rdIdx + 1 \in IDs THEN rdIdx + 1 ELSE 0
  /\ UNCHANGED <<currentInterceptsLock, rdPc, rdReq>>
  /\ UNCHANGED <<sessVars, objVars, chanVars, recVars, patVars, callVars, rmVars, panicked,
                 mgrVars>>

\* the reader releases the lock and returns
ReadUnlock ==
  /\ ~panicked
  /\ rdPc = "locked"
  /\ ReadFinished
  /\ currentInterceptsLock' = ""
  /\ rdPc' = "idle"
  /\ rdReq' = NoRead
  /\ rdIdx' = 1
  /\ rdView' = [i \in IDs |-> Unread]
  /\ iiRes' = NoInterceptInfo
  /\ UNCHANGED <<sessVars, objVars, chanVars, recVars, patVars, callVars, rmVars, panicked,
                 mgrVars>>

(***************************************************************************)
(* The session                                                             *)
(***************************************************************************)
NameOfId(i) == IF i = 1 THEN "a" ELSE "b"
SnapshotsById == { s \in Snapshots : \A i \in DOMAIN s : s[i].name = NameOfId(s[i].id) }

\* the reconciler and the work it starts
Reconciler(snaps) ==
  \/ \E iis \in snaps : WatchRecv(iis)
  \/ \E kind \in {"eof", "other"}, ctxDone \in BOOLEAN : WatchRecvError(kind, ctxDone)
  \/ Reconnect
  \/ TakeWaiter
  \/ Notify
  \/ CancelUnwanted
  \/ \E o \in Objs : WorkDone(o)

\* concurrent AddIntercept calls
AddCalls(calls, reqs, outcomes) ==
  \/ \E c \in calls, req \in reqs :
        /\ \A d \in calls : d < c => cPc[d] # "idle"   \* the calls are numbered as they start
        /\ CanInterceptStart(c, req)
  \/ \E c \in calls, pi \in outcomes : PrepareResponse(c, pi)
  \/ \E c \in calls : RegisterWaiter(c)
  \/ \E c \in calls, ok \in BOOLEAN : CreateResponse(c, ok)
  \/ \E c \in calls : WaitDone(c)
  \/ \E c \in calls : WaitRecv(c)
  \/ \E c \in calls : WaitMounts(c)
  \/ \E c \in calls : RemoveFailed(c)
  \/ \E c \in calls : CleanupWaiter(c)
  \/ \E p \in calls : RmStop(p)
  \/ \E p \in calls : RmCancel(p)
  \/ \E p \in calls : RmWait(p)
  \/ \E p \in calls, reply \in {"ok", "notfound", "error"} : RmSend(p, reply)

\* snapshots of a stream that carries records without failures
SnapshotsSnap ==
  { s \in SnapshotsById : \A i \in DOMAIN s : s[i].ns = SessionNamespace /\ s[i].disp # "NO_AGENT" }

NextSnap ==
  \/ Reconciler(Snapshots)
  \/ \E k \in PodKeys : MountReady(k)
SpecSnap == Init /\ [][NextSnap]_vars

\* snapshots that carry at most the intercept "a"
SnapshotsOne == { s \in SnapshotsById : \A i \in DOMAIN s : s[i].id = 1 }

\* one AddIntercept call with any request, against the reconciler
RequestsOne == { r \in Requests : r.targetPort \in {0, 8080} }
NextAdd ==
  \/ Reconciler(SnapshotsOne)
  \/ \E k \in PodKeys : MountReady(k)
  \/ AddCalls({1}, RequestsOne, PrepareOutcomes)
SpecAdd == Init /\ [][NextAdd]_vars

\* two concurrent AddIntercept calls with requests that pass CanIntercept
RequestsTwo == { r \in Requests : r.ns = "" /\ r.agent = "wl" /\ r.targetPort \in {0, 8080} }
OutcomesTwo == { pi \in PrepareOutcomes : pi.kind = "ok" /\ pi.portIdOk /\ pi.containerPort = 8080 }
\* snapshots that carry at most the established intercept "a"
SnapshotsTwo == { s \in SnapshotsOne : \A i \in DOMAIN s : s[i].ns = SessionNamespace /\ s[i].disp = "ACTIVE" }
NextTwo ==
  \/ Reconciler(SnapshotsTwo)
  \/ \E k \in PodKeys : MountReady(k)
  \/ AddCalls(Calls, RequestsTwo, OutcomesTwo)
SpecTwo == Init /\ [][NextTwo]_vars

\* one AddIntercept call and the handlers of the intercept, against the
\* reconciler
NextRefresh ==
  \/ Reconciler(SnapshotsOne)
  \/ \E k \in PodKeys : MountReady(k)
  \/ AddCalls({1}, RequestsTwo, OutcomesTwo)
  \/ \E id \in IDs, kind \in {"pid", "container"} : AddInterceptor(id, kind)
  \/ \E id \in IDs : RemoveInterceptor(id)
SpecRefresh == Init /\ [][NextRefresh]_vars

\* snapshots of a manager that keeps the names of a client's intercepts unique
SnapshotsNames == { s \in Snapshots : \A i, j \in DOMAIN s : i # j => s[i].name # s[j].name }

NextNames ==
  \/ Reconciler(SnapshotsNames)
  \/ \E k \in PodKeys : MountReady(k)
SpecNames == Init /\ [][NextNames]_vars

\* snapshots of intercepts of the session whose pods may be the same one
SnapshotsShared ==
  { s \in SnapshotsOf(AllRecords) :
      \A i \in DOMAIN s : /\ s[i].name = NameOfId(s[i].id)
                           /\ s[i].ns = SessionNamespace
                           /\ s[i].disp \in {"ACTIVE", "WAITING"}
                           /\ s[i].apiPortEnv = ApiPortEnvOfId(s[i].id)
                           /\ s[i].headers = "h" }

NextPat ==
  \/ Reconciler(SnapshotsShared)
  \/ \E k \in PodKeys : MountReady(k)
SpecPat == Init /\ [][NextPat]_vars

\* snapshots of intercepts of the session where the first declares any API
\* port and has any headers
SnapshotsApi ==
  SnapshotsOf({ r \in AllRecords :
                  /\ r.name = NameOfId(r.id)
                  /\ r.ns = SessionNamespace
                  /\ r.disp \in {"ACTIVE", "WAITING"}
                  /\ r.podIP = PodIPOfId(r.id)
                  /\ r.id # 1 => r.apiPortEnv = ApiPortEnvOfId(r.id) /\ r.headers = "h" })

NextApi ==
  \/ Reconciler(SnapshotsApi)
  \/ \E k \in PodKeys : MountReady(k)
SpecApi == Init /\ [][NextApi]_vars

\* the calls that read the intercept set, against the reconciler
NextRead ==
  \/ Reconciler(SnapshotsApi)
  \/ \E k \in PodKeys : MountReady(k)
  \/ \E req \in ReadRequests : ReadLock(req)
  \/ ReadNext
  \/ ReadUnlock
SpecRead == Init /\ [][NextRead]_vars

\* the calls of InterceptInfo, against the reconciler
InfoRequests == { req \in ReadRequests : req.kind = "InterceptInfo" }
NextMatch ==
  \/ Reconciler(SnapshotsApi)
  \/ \E k \in PodKeys : MountReady(k)
  \/ \E req \in InfoRequests : ReadLock(req)
  \/ ReadNext
  \/ ReadUnlock
SpecMatch == Init /\ [][NextMatch]_vars

\* client-initiated removal and the handlers, against the reconciler
Removal ==
  \/ \E n \in Names : RemoveIntercept(n)
  \/ ClearIngestsAndIntercepts
  \/ \E p \in {User} : RmStop(p)
  \/ \E p \in {User} : RmCancel(p)
  \/ \E p \in {User} : RmWait(p)
  \/ \E p \in {User}, reply \in {"ok", "notfound", "error"} : RmSend(p, reply)
  \/ \E id \in IDs, kind \in {"pid", "container"} : AddInterceptor(id, kind)
  \/ \E id \in IDs : RemoveInterceptor(id)

\* snapshots of established intercepts
SnapshotsActive == { s \in SnapshotsSnap : \A i \in DOMAIN s : s[i].disp = "ACTIVE" }

NextRemove ==
  \/ Reconciler(SnapshotsActive)
  \/ Removal
SpecRemove == Init /\ [][NextRemove]_vars

(***************************************************************************)
(* findIntercept                                                           *)
(***************************************************************************)
\* PortIdentifier.ProtoAndNameOrNumber: the number of a numeric identifier,
\* 0 for a name
PortNumber(pi) == IF pi = "80" THEN 80 ELSE IF pi = "8080" THEN 8080 ELSE 0

\* agentconfig.IsInterceptForService
IsInterceptForService(pi, ic) ==
  IF PortNumber(pi) = 0 THEN pi = ic.servicePortName
  ELSE PortNumber(pi) = ic.servicePort

\* agentconfig.IsInterceptForContainer
IsInterceptForContainer(pi, ic) ==
  IF PortNumber(pi) = 0 THEN pi = ic.containerPortName
  ELSE PortNumber(pi) = ic.containerPort

\* the two continue conditions of the loop body, negated
RuleMatches(spec, ic) ==
  /\ spec.serviceName = "" \/ spec.serviceName = ic.serviceName
  /\ spec.portIdentifier # "" =>
       IF ic.serviceUID # "" THEN IsInterceptForService(spec.portIdentifier, ic)
       ELSE IsInterceptForContainer(spec.portIdentifier, ic)

\* the ambiguity messages with the hints swapped
AmbiguityMessageSwapped(spec) ==
  IF spec.serviceName = "" /\ spec.portIdentifier = ""
  THEN "has multiple interceptable ports: pass --service and/or --port"
  ELSE IF spec.serviceName = ""
  THEN "has multiple interceptable ports in service: pass --port"
  ELSE IF spec.portIdentifier = ""
  THEN "has multiple interceptable services with port: pass --service"
  ELSE "intercept config is broken: service, port is declared more than once"

\* the switch that selects the message of the ambiguity error
AmbiguityMessage(spec) ==
  IF spec.serviceName = "" /\ spec.portIdentifier = ""
  THEN "has multiple interceptable ports: pass --service and/or --port"
  ELSE IF spec.serviceName = ""
  THEN "has multiple interceptable services with port: pass --service"
  ELSE IF spec.portIdentifier = ""
  THEN "has multiple interceptable ports in service: pass --port"
  ELSE "intercept config is broken: service, port is declared more than once"

\* the message when no rule matched
NoPortMessage(spec) ==
  IF spec.serviceName # ""
  THEN IF spec.portIdentifier # ""
       THEN "has no interceptable port matching service, port"
       ELSE "has no interceptable port matching service"
  ELSE IF spec.portIdentifier # ""
  THEN "has no interceptable port matching port"
  ELSE "has no interceptable port"

\* foundCN that is always the container of the rule
FoundContainerOfRule(c, spec) == c

\* foundCN: the container of the rule, or the first container that has the
\* requested name
FoundContainer(c, spec) ==
  IF /\ spec.containerName # ""
     /\ \E x \in DOMAIN ContainerNames : ContainerNames[x] = spec.containerName
  THEN CHOOSE x \in DOMAIN ContainerNames :
         /\ ContainerNames[x] = spec.containerName
         /\ \A y \in DOMAIN ContainerNames : ContainerNames[y] = spec.containerName => x <= y
  ELSE c

\* the two loops from rule i of container c on, with the pair found so far
RECURSIVE FindFrom(_, _, _, _, _)
FindFrom(ac, spec, c, i, found) ==
  IF c > Len(ac)
  THEN IF found.ic # NoRule THEN found
       ELSE [err |-> NoPortMessage(spec), cn |-> 0, ic |-> NoRule]
  ELSE IF i > Len(ac[c]) THEN FindFrom(ac, spec, c + 1, 1, found)
  ELSE IF ~RuleMatches(spec, ac[c][i]) THEN FindFrom(ac, spec, c, i + 1, found)
  ELSE IF found.ic = NoRule
  THEN FindFrom(ac, spec, c, i + 1,
                [err |-> "", cn |-> FoundContainer(c, spec), ic |-> ac[c][i]])
  ELSE [err |-> AmbiguityMessage(spec), cn |-> 0, ic |-> NoRule]

\* the loops without the ambiguity error: the first matching rule wins
RECURSIVE FirstFrom(_, _, _, _)
FirstFrom(ac, spec, c, i) ==
  IF c > Len(ac) THEN [err |-> NoPortMessage(spec), cn |-> 0, ic |-> NoRule]
  ELSE IF i > Len(ac[c]) THEN FirstFrom(ac, spec, c + 1, 1)
  ELSE IF ~RuleMatches(spec, ac[c][i]) THEN FirstFrom(ac, spec, c, i + 1)
  ELSE [err |-> "", cn |-> FoundContainer(c, spec), ic |-> ac[c][i]]

findInterceptFirstWins(ac, spec) == FirstFrom(ac, spec, 1, 1)

findIntercept(ac, spec) == FindFrom(ac, spec, 1, 1, NoFound)

\* a call of findIntercept returns
FindIntercept ==
  /\ fiPc = "call"
  /\ fiRes' = findIntercept(fiAc, fiSpec)
  /\ fiPc' = "done"
  /\ UNCHANGED <<fiAc, fiSpec, mapVars, eaVars>>
  /\ UNCHANGED <<sessVars, objVars, chanVars, recVars, patVars, callVars, rmVars, panicked, piVars, readVars, isVars>>

\* findIntercept called with any agent config and any intercept spec
InitFind ==
  /\ InitSession
  /\ fiPc = "call"
  /\ fiAc \in Sidecars
  /\ fiSpec \in InterceptSpecs
  /\ fiRes = NoFound
  /\ InitAgentIdle
  /\ InitInterceptState

NextFind == FindIntercept
SpecFind == InitFind /\ [][NextFind]_vars

(***************************************************************************)
(* ensureAgent, getOrCreateAgentConfig, waitForAgents                      *)
(***************************************************************************)
UserError(msg) == [returned |-> TRUE, cat |-> "user", msg |-> msg, agents |-> {}]
OtherError(cat, msg) == [returned |-> TRUE, cat |-> cat, msg |-> msg, agents |-> {}]
Arrived(as) == [returned |-> TRUE, cat |-> "", msg |-> <<>>, agents |-> as]

\* the agents of the workload of the call that are registered
AgentsOfWorkload == agents \cap WorkloadAgents

\* isExtended of the spec that PrepareIntercept passes; EnsureAgent passes false
isExtended(spec) == ~spec.nil /\ spec.mechanism # "tcp"

\* checkInterceptAnnotations where "false" and "disabled" are read as no
\* inject annotation
checkInterceptAnnotationsIgnoresDisabled(wl) ==
  IF wl.inject \notin {"", "enabled", "false", "disabled"}
  THEN [enabled |-> FALSE, err |-> "is not a valid value for the annotation"]
  ELSE IF ~wl.manual THEN [enabled |-> TRUE, err |-> ""]
  ELSE IF ~wl.agentContainer
  THEN [enabled |-> FALSE, err |-> "annotation manual-inject=true but pod has no traffic-agent container"]
  ELSE [enabled |-> TRUE, err |-> ""]

\* checkInterceptAnnotations where an inject annotation decides before the
\* manual-inject annotation is looked at
checkInterceptAnnotationsExplicitFirst(wl) ==
  IF wl.inject \notin {"", "enabled", "false", "disabled"}
  THEN [enabled |-> FALSE, err |-> "is not a valid value for the annotation"]
  ELSE IF wl.inject = "enabled" THEN [enabled |-> TRUE, err |-> ""]
  ELSE IF wl.inject # "" THEN [enabled |-> FALSE, err |-> ""]
  ELSE IF ~wl.manual THEN [enabled |-> TRUE, err |-> ""]
  ELSE IF ~wl.agentContainer
  THEN [enabled |-> FALSE, err |-> "annotation manual-inject=true but pod has no traffic-agent container"]
  ELSE [enabled |-> TRUE, err |-> ""]

checkInterceptAnnotations(wl) ==
  LET webhookEnabled ==
        IF wl.inject = "" THEN ~wl.manual
        ELSE IF wl.inject = "enabled" THEN TRUE
        ELSE FALSE
  IN
  IF wl.inject \notin {"", "enabled", "false", "disabled"}
  THEN [enabled |-> FALSE, err |-> "is not a valid value for the annotation"]
  ELSE IF ~wl.manual THEN [enabled |-> webhookEnabled, err |-> ""]
  ELSE IF ~wl.agentContainer
  THEN [enabled |-> FALSE, err |-> "annotation manual-inject=true but pod has no traffic-agent container"]
  ELSE [enabled |-> TRUE, err |-> ""]

\* ValidateAgentImage: the message of its error, "" when it accepts
ValidateAgentImage(agentImage, extended) ==
  IF agentImage = ""
  THEN "intercepts are disabled because the traffic-manager is unable to determine what image to use"
  ELSE IF extended
  THEN "traffic-manager does not support intercepts that require an extended traffic-agent"
  ELSE ""

\* the call returns ret and leaves the agent-config map as it is
ReturnEarly(ret) ==
  /\ eaPc' = "done"
  /\ eaRet' = ret
  /\ UNCHANGED <<mapVars, eaSce>>

\* the end of the function that getOrCreateAgentConfig passes to Update, from
\* "ac := sce.AgentConfig()" on, and the start of waitForAgents. Like a
\* deletion, the write of the map is not carried out in a scope that is done:
\* Update returns the error of the scope
FinishUpdate(sce, cmFound, doUpdate, spec) ==
  LET r == findIntercept(GeneratedRules, spec)
      failed == ~spec.nil /\ r.err # ""
      sce2 == IF ~spec.nil /\ ~failed /\ sce.replace[r.cn] # spec.replace
              THEN [sce EXCEPT !.replace[r.cn] = spec.replace]
              ELSE sce
      upd == doUpdate \/ sce2 # sce
  IN
  IF failed THEN ReturnEarly(UserError(<<r.err>>))
  ELSE IF upd /\ eaCtx # "" THEN ReturnEarly(OtherError("other", <<eaCtx>>))
  ELSE /\ sessActive' = [ a \in AgentSessions |->
                            IF upd /\ cmFound /\ a \in AgentsOfWorkload THEN FALSE
                            ELSE sessActive[a] ]
       /\ cmData' = IF upd THEN sce2 ELSE cmData
       /\ cmLog' = cmLog \o (IF upd /\ cmFound THEN <<"inactive">> ELSE <<>>)
                         \o (IF upd /\ sce2 # cmData THEN <<"persist">> ELSE <<>>)
       /\ eaSce' = sce2
       /\ eaPc' = "wait"
       /\ UNCHANGED <<agents, eaRet>>

\* getOrCreateAgentConfig up to the point where it waits for the agents of a
\* workload without entry to depart
getOrCreateAgentConfig(in) ==
  LET chk == checkInterceptAnnotations(in.wl)
      extended == isExtended(in.spec)
      imgErr == ValidateAgentImage(in.agentImage, extended)
      stale == cmData.agentImage # in.agentImage /\ extended
      generated == [found |-> TRUE, agentImage |-> in.agentImage,
                    replace |-> [c \in DOMAIN ContainerNames |-> FALSE]]
  IN
  IF chk.err # "" THEN ReturnEarly(UserError(<<chk.err>>))
  ELSE IF ~chk.enabled THEN ReturnEarly(UserError(<<"is not interceptable">>))
  ELSE IF imgErr # "" THEN ReturnEarly(UserError(<<imgErr>>))
  ELSE IF cmData.found
  THEN FinishUpdate(IF stale THEN [cmData EXCEPT !.agentImage = in.agentImage] ELSE cmData,
                    TRUE, stale, in.spec)
  ELSE IF AgentsOfWorkload # {}
  THEN /\ eaPc' = "depart"
       /\ eaSce' = generated
       /\ UNCHANGED <<mapVars, eaRet>>
  ELSE FinishUpdate(generated, FALSE, TRUE, in.spec)

\* a call of ensureAgent by EnsureAgent or PrepareIntercept, which got the
\* workload
EnsureAgentCall(in) ==
  /\ eaPc = "idle"
  /\ piCall = NoCall
  /\ piCall' = [handler |-> IF in.spec.nil THEN "EnsureAgent" ELSE "PrepareIntercept",
                getWorkload |-> "ok"]
  /\ eaIn' = [args |-> in, entry |-> cmData]
  /\ IF ~in.injectorEnabled
     THEN /\ IF cmData.found
             THEN ReturnEarly(Arrived(AgentsOfWorkload))
             ELSE ReturnEarly(UserError(<<"agent-injector is disabled and no agent has been added manually">>))
          /\ UNCHANGED wPc
     ELSE \E watchOk \in BOOLEAN :
            IF ~watchOk
            THEN /\ ReturnEarly(OtherError("other", <<"watch of events failed">>))
                 /\ UNCHANGED wPc
            ELSE /\ wPc' = "select"     \* watchFailedInjectionEvents started its goroutine
                 /\ getOrCreateAgentConfig(in)
  /\ UNCHANGED <<eaFes, eaLast, eaSnap, eaCtx, findVars, piRet>>
  /\ UNCHANGED <<sessVars, objVars, chanVars, recVars, patVars, callVars, rmVars, panicked, readVars, isVars>>

\* the fresh record is written while agents of the workload are registered
DepartDoneAtOnce ==
  /\ eaPc = "depart"
  /\ FinishUpdate(eaSce, FALSE, TRUE, eaIn.args.spec)
  /\ UNCHANGED <<eaIn, eaFes, eaLast, eaSnap, eaCtx, wPc, findVars>>
  /\ UNCHANGED <<sessVars, objVars, chanVars, recVars, patVars, callVars, rmVars, panicked, piVars, readVars, isVars>>

\* the agents of a workload without entry have departed, or their
\* subscription was closed because the context is done
DepartDone ==
  /\ eaPc = "depart"
  /\ AgentsOfWorkload = {} \/ eaCtx # ""
  /\ FinishUpdate(eaSce, FALSE, TRUE, eaIn.args.spec)
  /\ UNCHANGED <<eaIn, eaFes, eaLast, eaSnap, eaCtx, wPc, findVars>>
  /\ UNCHANGED <<sessVars, objVars, chanVars, recVars, patVars, callVars, rmVars, panicked, piVars, readVars, isVars>>

\* the context is done while the call waits for the agents to depart
DepartCtxDone ==
  /\ eaPc = "depart"
  /\ eaCtx # ""
  /\ ReturnEarly(OtherError("other", <<eaCtx>>))
  /\ UNCHANGED <<eaIn, eaFes, eaLast, eaSnap, eaCtx, wPc, findVars>>
  /\ UNCHANGED <<sessVars, objVars, chanVars, recVars, patVars, callVars, rmVars, panicked, piVars, readVars, isVars>>

\* strings.Contains(msg, ...) for the four notes of events that are retried
ContainsTransient(note) == note = "0/3 nodes are available"

\* the switch on fe.Reason without the exception for transient warnings
IsFatalEventNoTransient(fe) ==
  fe.reason \in {"BackOff", "Failed", "FailedCreate", "FailedScheduling"}

\* the switch on fe.Reason where BackOff is collected like any other event
IsFatalEventNoBackOff(fe) ==
  /\ fe.reason \in {"Failed", "FailedCreate", "FailedScheduling"}
  /\ ~(fe.type = "Warning" /\ ContainsTransient(fe.note))

\* the switch on fe.Reason: the event ends the wait
IsFatalEvent(fe) ==
  \/ fe.reason = "BackOff"
  \/ /\ fe.reason \in {"Failed", "FailedCreate", "FailedScheduling"}
     /\ ~(fe.type = "Warning" /\ ContainsTransient(fe.note))

\* the message of the error for a fatal event
FatalMessage(fe) ==
  IF fe.reason = "BackOff"
  THEN <<fe.note, "The logs of the pod might provide more details">>
  ELSE <<fe.note, "Hint: if the error mentions resource quota, the traffic-agent's requested resources can be configured">>

\* dropAgentConfig: the deletion of the entry is requested in a scope; the
\* map carries it out unless that scope is done
dropAgentConfig(scopeDone) ==
  /\ cmLog' = Append(cmLog, "delete")
  /\ cmData' = IF scopeDone THEN cmData ELSE NoEntry

\* waitForAgents failed and the entry is dropped in the scope of the wait
WaitFailedDropsInWaitScope(ret) ==
  /\ eaPc' = "done"
  /\ eaRet' = ret
  /\ dropAgentConfig(eaCtx # "")
  /\ UNCHANGED <<agents, sessActive, eaSce>>

\* waitForAgents failed: ensureAgent drops the entry in the scope of its
\* caller, which is done only when the caller has cancelled, and returns the
\* error
WaitFailed(ret) ==
  /\ eaPc' = "done"
  /\ eaRet' = ret
  /\ dropAgentConfig(eaCtx = "canceled")
  /\ UNCHANGED <<agents, sessActive, eaSce>>

\* waitForAgents receives an event from failedCreateCh: the goroutine of
\* watchFailedInjectionEvents is at its send, or gets the event from the
\* watch and sends it, and is back at its select
WaitEvent(fe) ==
  /\ eaPc = "wait"
  /\ wPc \in {"select", "send"}
  /\ wPc' = "select"
  /\ eaLast' = fe
  /\ IF IsFatalEvent(fe)
     THEN /\ WaitFailed(UserError(FatalMessage(fe)))
          /\ UNCHANGED eaFes
     ELSE /\ Len(eaFes) < MaxEvents
          /\ eaFes' = Append(eaFes, fe)
          /\ UNCHANGED <<mapVars, eaPc, eaRet, eaSce>>
  /\ UNCHANGED <<eaIn, eaSnap, eaCtx, findVars>>
  /\ UNCHANGED <<sessVars, objVars, chanVars, recVars, patVars, callVars, rmVars, panicked, piVars, readVars, isVars>>

\* the context of the goroutine is done: the arrival timeout passed, the
\* caller cancelled, or ensureAgent returned and its deferred cancel() ran
WatchCtxIsDone == eaCtx # "" \/ eaPc = "done"

\* the select of the goroutine takes the ctx.Done case: it returns, and the
\* deferred w.Stop() ends the watch
WatchCtxDone ==
  /\ wPc = "select"
  /\ WatchCtxIsDone
  /\ wPc' = "stopped"
  /\ UNCHANGED <<mapVars, eaPc, eaIn, eaSce, eaFes, eaLast, eaSnap, eaCtx, eaRet, findVars>>
  /\ UNCHANGED <<sessVars, objVars, chanVars, recVars, patVars, callVars, rmVars, panicked, piVars, readVars, isVars>>

\* the select takes an event of the workload from w.ResultChan(): the
\* goroutine is at "ec <- e", a send on an unbuffered channel outside of any
\* select
WatchEvent ==
  /\ wPc = "select"
  /\ wPc' = "send"
  /\ UNCHANGED <<mapVars, eaPc, eaIn, eaSce, eaFes, eaLast, eaSnap, eaCtx, eaRet, findVars>>
  /\ UNCHANGED <<sessVars, objVars, chanVars, recVars, patVars, callVars, rmVars, panicked, piVars, readVars, isVars>>

\* w.ResultChan() is closed: the goroutine returns
WatchClosed ==
  /\ wPc = "select"
  /\ wPc' = "stopped"
  /\ UNCHANGED <<mapVars, eaPc, eaIn, eaSce, eaFes, eaLast, eaSnap, eaCtx, eaRet, findVars>>
  /\ UNCHANGED <<sessVars, objVars, chanVars, recVars, patVars, callVars, rmVars, panicked, piVars, readVars, isVars>>

\* waitForAgents receives a snapshot and returns every agent of it
WaitSnapshotKeepsBlacklisted ==
  /\ eaPc = "wait"
  /\ eaSnap' = [got |-> TRUE, state |-> AgentsOfWorkload]
  /\ IF AgentsOfWorkload # {}
     THEN eaPc' = "done" /\ eaRet' = Arrived(AgentsOfWorkload)
     ELSE UNCHANGED <<eaPc, eaRet>>
  /\ UNCHANGED <<mapVars, eaIn, eaSce, eaFes, eaLast, eaCtx, wPc, findVars>>
  /\ UNCHANGED <<sessVars, objVars, chanVars, recVars, patVars, callVars, rmVars, panicked, piVars, readVars, isVars>>

\* waitForAgents receives a snapshot of the agents of the workload: it returns
\* those that are not blacklisted, and goes on waiting when there is none
WaitSnapshot ==
  /\ eaPc = "wait"
  /\ eaSnap' = [got |-> TRUE, state |-> AgentsOfWorkload]
  /\ LET as == AgentsOfWorkload \ Blacklisted
     IN  IF as # {}
         THEN eaPc' = "done" /\ eaRet' = Arrived(as)
         ELSE UNCHANGED <<eaPc, eaRet>>
  /\ UNCHANGED <<mapVars, eaIn, eaSce, eaFes, eaLast, eaCtx, wPc, findVars>>
  /\ UNCHANGED <<sessVars, objVars, chanVars, recVars, patVars, callVars, rmVars, panicked, piVars, readVars, isVars>>

\* the snapshot channel was closed: the request has been canceled
WaitSnapshotClosed ==
  /\ eaPc = "wait"
  /\ eaCtx # ""
  /\ WaitFailed(OtherError("canceled", <<"channel closed while waiting for agent to arrive">>))
  /\ UNCHANGED <<eaIn, eaFes, eaLast, eaSnap, eaCtx, wPc, findVars>>
  /\ UNCHANGED <<sessVars, objVars, chanVars, recVars, patVars, callVars, rmVars, panicked, piVars, readVars, isVars>>

\* the cell of the table of writeEventList at position j: the rows are the
\* events, the columns their type, reason and note
EventCell(es, j) ==
  LET e == es[((j - 1) \div 3) + 1]
      c == (j - 1) % 3
  IN  IF c = 0 THEN e.type ELSE IF c = 1 THEN e.reason ELSE e.note

\* writeEventList: the header and one row for each event, in the order of es
writeEventList(es) == [ j \in 1..(3 * Len(es)) |-> EventCell(es, j) ]

\* the wait ends when the arrival timeout has passed, not when the caller
\* has cancelled
WaitCtxDoneDeadlineOnly ==
  /\ eaPc = "wait"
  /\ eaCtx = "timed out"
  /\ WaitFailed(UserError(<<"request", eaCtx, "while waiting for agent to arrive">>
                          \o (IF eaFes # <<>> THEN <<"Events that may be relevant">> ELSE <<>>)
                          \o writeEventList(eaFes)))
  /\ UNCHANGED <<eaIn, eaFes, eaLast, eaSnap, eaCtx, wPc, findVars>>
  /\ UNCHANGED <<sessVars, objVars, chanVars, recVars, patVars, callVars, rmVars, panicked, piVars, readVars, isVars>>

\* the context is done while waitForAgents waits
WaitCtxDone ==
  /\ eaPc = "wait"
  /\ eaCtx # ""
  /\ WaitFailed(UserError(<<"request", eaCtx, "while waiting for agent to arrive">>
                          \o (IF eaFes # <<>> THEN <<"Events that may be relevant">> ELSE <<>>)
                          \o writeEventList(eaFes)))
  /\ UNCHANGED <<eaIn, eaFes, eaLast, eaSnap, eaCtx, wPc, findVars>>
  /\ UNCHANGED <<sessVars, objVars, chanVars, recVars, patVars, callVars, rmVars, panicked, piVars, readVars, isVars>>

\* the arrival timeout passes or the caller cancels the request
CtxDone(cause) ==
  /\ eaPc \in {"depart", "wait"}
  /\ eaCtx = ""
  /\ eaCtx' = cause
  /\ UNCHANGED <<mapVars, eaPc, eaIn, eaSce, eaFes, eaLast, eaSnap, eaRet, wPc, findVars>>
  /\ UNCHANGED <<sessVars, objVars, chanVars, recVars, patVars, callVars, rmVars, panicked, piVars, readVars, isVars>>

\* an agent session is registered
AgentArrives(a) ==
  /\ eaPc \in {"depart", "wait"}
  /\ a \notin agents
  /\ agents' = agents \cup {a}
  /\ sessActive' = [sessActive EXCEPT ![a] = TRUE]
  /\ UNCHANGED <<cmData, cmLog, eaVars, findVars>>
  /\ UNCHANGED <<sessVars, objVars, chanVars, recVars, patVars, callVars, rmVars, panicked, piVars, readVars, isVars>>

\* an agent session ends
AgentDeparts(a) ==
  /\ eaPc \in {"depart", "wait"}
  /\ a \in agents
  /\ agents' = agents \ {a}
  /\ sessActive' = [sessActive EXCEPT ![a] = FALSE]
  /\ UNCHANGED <<cmData, cmLog, eaVars, findVars>>
  /\ UNCHANGED <<sessVars, objVars, chanVars, recVars, patVars, callVars, rmVars, panicked, piVars, readVars, isVars>>

\* agentmap.GetWorkload fails in a handler
GetWorkloadFails(handler, e) ==
  /\ eaPc = "idle"
  /\ piCall = NoCall
  /\ piCall' = [handler |-> handler, getWorkload |-> e]
  /\ UNCHANGED <<findVars, mapVars, eaVars, piRet>>
  /\ UNCHANGED <<sessVars, objVars, chanVars, recVars, patVars, callVars, rmVars, panicked, readVars, isVars>>

\* the error of GetWorkload as the handlers pass it on: errcat.User when it
\* is a NotFound
GetWorkloadError(e) ==
  IF e = "not found" THEN [cat |-> "user", msg |-> <<e>>] ELSE [cat |-> "other", msg |-> <<e>>]

\* status.FromError(err) is ok: of the errors that arise here only the one
\* that waitForAgents makes with status.Error(codes.Canceled, ...)
IsStatusError(e) == e.cat = "canceled"

\* errcat.GetCategory
GetCategory(e) == IF e.cat = "user" THEN "user" ELSE "unknown"

\* interceptError where every error is returned as the error of the call
interceptErrorAlwaysCallError(e) ==
  [NoResult EXCEPT !.returned = TRUE, !.err = [kind |-> "status", msg |-> e.msg]]

\* the closure interceptError of PrepareIntercept
interceptError(e) ==
  IF IsStatusError(e)
  THEN [NoResult EXCEPT !.returned = TRUE, !.err = [kind |-> "status", msg |-> e.msg]]
  ELSE [NoResult EXCEPT !.returned = TRUE, !.pi = "error", !.error = e.msg,
                        !.errorCategory = GetCategory(e)]

\* PrepareIntercept from the return of GetWorkload or of ensureAgent on
PrepareIntercept ==
  LET r == findIntercept(GeneratedRules, eaIn.args.spec)
  IN
  IF piCall.getWorkload # "ok" THEN interceptError(GetWorkloadError(piCall.getWorkload))
  ELSE IF eaRet.cat # "" THEN interceptError([cat |-> eaRet.cat, msg |-> eaRet.msg])
  ELSE IF r.err # "" THEN interceptError([cat |-> "user", msg |-> <<r.err>>])
  ELSE [NoResult EXCEPT !.returned = TRUE, !.pi = "prepared", !.ic = r.ic]

\* EnsureAgent from the return of GetWorkload or of ensureAgent on
EnsureAgent ==
  IF piCall.getWorkload # "ok"
  THEN [NoResult EXCEPT !.returned = TRUE,
                        !.err = [kind |-> "plain", msg |-> GetWorkloadError(piCall.getWorkload).msg]]
  ELSE IF eaRet.cat # ""
  THEN [NoResult EXCEPT !.returned = TRUE,
                        !.err = [kind |-> IF IsStatusError(eaRet) THEN "status" ELSE "plain",
                                 msg |-> eaRet.msg]]
  ELSE [NoResult EXCEPT !.returned = TRUE, !.agents = eaRet.agents]

\* the handler returns to its caller
HandlerReturn ==
  /\ ~piRet.returned
  /\ \/ piCall.getWorkload \in GetWorkloadErrors
     \/ piCall.getWorkload = "ok" /\ eaPc = "done"
  /\ piRet' = IF piCall.handler = "PrepareIntercept" THEN PrepareIntercept ELSE EnsureAgent
  /\ UNCHANGED <<findVars, mapVars, eaVars, piCall>>
  /\ UNCHANGED <<sessVars, objVars, chanVars, recVars, patVars, callVars, rmVars, panicked, readVars, isVars>>

\* PrepareIntercept panics: the request has no InterceptSpec, and reading
\* spec.Agent for GetWorkload dereferences nil. The deferred function
\* recovers, pi is still nil and err is set from the value of the panic
PreparePanic ==
  /\ eaPc = "idle"
  /\ piCall = NoCall
  /\ piCall' = [handler |-> "PrepareIntercept", getWorkload |-> "panic"]
  /\ piRet' = [NoResult EXCEPT !.returned = TRUE, !.err = [kind |-> "panic", msg |-> <<"panic">>]]
  /\ UNCHANGED <<findVars, mapVars, eaVars>>
  /\ UNCHANGED <<sessVars, objVars, chanVars, recVars, patVars, callVars, rmVars, panicked, readVars, isVars>>

\* one call of ensureAgent against any agent-config entry and any agents
InitAgent ==
  /\ InitSession
  /\ InitFindIdle
  /\ InitInterceptState
  /\ cmData \in Entries
  /\ agents \in {AgentSessions \ WorkloadAgents, AgentSessions}
  /\ sessActive = [a \in AgentSessions |-> a \in agents]
  /\ cmLog = <<>>
  /\ eaPc = "idle"
  /\ eaIn = NoInput
  /\ eaSce = NoEntry
  /\ eaFes = <<>>
  /\ eaLast = NoEvent
  /\ wPc = "idle"
  /\ eaSnap = NoSnapshot
  /\ eaCtx = ""
  /\ eaRet = NoReturn
  /\ piCall = NoCall
  /\ piRet = NoResult

NextAgent ==
  \/ \E in \in EnsureAgentInputs : EnsureAgentCall(in)
  \/ DepartDone
  \/ DepartCtxDone
  \/ \E fe \in Events : WaitEvent(fe)
  \/ WaitSnapshot
  \/ WaitSnapshotClosed
  \/ WaitCtxDone
  \/ \E cause \in {"timed out", "canceled"} : CtxDone(cause)
  \/ \E a \in WorkloadAgents : AgentArrives(a)
  \/ \E a \in WorkloadAgents : AgentDeparts(a)
  \/ \E h \in Handlers, e \in GetWorkloadErrors : GetWorkloadFails(h, e)
  \/ HandlerReturn
  \/ PreparePanic
SpecAgent == InitAgent /\ [][NextAgent]_vars

\* the call of ensureAgent alone, with what the scheduling guarantees: the
\* timer of context.WithTimeout fires, and a select whose ctx.Done case stays
\* ready takes that case at some iteration
NextWait ==
  \/ \E in \in EnsureAgentInputs : EnsureAgentCall(in)
  \/ DepartDone
  \/ DepartCtxDone
  \/ \E fe \in Events : WaitEvent(fe)
  \/ WaitSnapshot
  \/ WaitSnapshotClosed
  \/ WaitCtxDone
  \/ \E cause \in {"timed out", "canceled"} : CtxDone(cause)
  \/ \E a \in WorkloadAgents : AgentArrives(a)
  \/ \E a \in WorkloadAgents : AgentDeparts(a)
FairWait ==
  /\ WF_vars(CtxDone("timed out"))
  /\ WF_vars(DepartCtxDone)
  /\ WF_vars(WaitCtxDone)
SpecWait == InitAgent /\ [][NextWait]_vars /\ FairWait

\* the call of ensureAgent together with the goroutine that feeds its event
\* channel; a select of the goroutine whose ctx.Done case stays ready takes
\* that case at some iteration
NextWatch ==
  \/ NextWait
  \/ WatchEvent
  \/ WatchCtxDone
  \/ WatchClosed
FairWatch ==
  /\ FairWait
  /\ WF_vars(WatchCtxDone)
SpecWatch == InitAgent /\ [][NextWatch]_vars /\ FairWatch

(***************************************************************************)
(* interceptState: addFinalizer and terminate                              *)
(***************************************************************************)
\* addFinalizer takes the lock
AddLock(f) ==
  /\ aPc = "idle"
  /\ isLock = ""
  /\ Len(finalizers) < MaxFinalizers
  /\ isLock' = "addFinalizer"
  /\ aPc' = "locked"
  /\ aFin' = f
  /\ UNCHANGED <<finalizers, tPc, tIdx, tRan>>
  /\ UNCHANGED <<findVars, mapVars, eaVars>>
  /\ UNCHANGED <<sessVars, objVars, chanVars, recVars, patVars, callVars, rmVars, panicked, piVars, readVars>>

\* addFinalizer appends the finalizer, and its deferred Unlock runs
AddAppend ==
  /\ aPc = "locked"
  /\ finalizers' = Append(finalizers, aFin)
  /\ isLock' = ""
  /\ aPc' = "idle"
  /\ aFin' = 0
  /\ UNCHANGED <<tPc, tIdx, tRan>>
  /\ UNCHANGED <<findVars, mapVars, eaVars>>
  /\ UNCHANGED <<sessVars, objVars, chanVars, recVars, patVars, callVars, rmVars, panicked, piVars, readVars>>

\* terminate takes the lock; i starts at len(is.finalizers) - 1
TermLock ==
  /\ tPc = "idle"
  /\ isLock = ""
  /\ isLock' = "terminate"
  /\ tPc' = "run"
  /\ tIdx' = Len(finalizers)
  /\ tRan' = <<>>
  /\ UNCHANGED <<finalizers, aPc, aFin>>
  /\ UNCHANGED <<findVars, mapVars, eaVars>>
  /\ UNCHANGED <<sessVars, objVars, chanVars, recVars, patVars, callVars, rmVars, panicked, piVars, readVars>>

\* the loop of terminate that ends at the first finalizer that fails
TermRunStopsOnError(failed) ==
  /\ tPc = "run"
  /\ tIdx >= 1
  /\ tRan' = Append(tRan, [f |-> finalizers[tIdx], failed |-> failed])
  /\ tIdx' = IF failed THEN 0 ELSE tIdx - 1
  /\ UNCHANGED <<finalizers, isLock, aPc, aFin, tPc>>
  /\ UNCHANGED <<findVars, mapVars, eaVars>>
  /\ UNCHANGED <<sessVars, objVars, chanVars, recVars, patVars, callVars, rmVars, panicked, piVars, readVars>>

\* one turn of the loop of terminate: the finalizer at i runs, its error is
\* logged, and the loop goes on with i - 1
TermRun(failed) ==
  /\ tPc = "run"
  /\ tIdx >= 1
  /\ tRan' = Append(tRan, [f |-> finalizers[tIdx], failed |-> failed])
  /\ tIdx' = tIdx - 1
  /\ UNCHANGED <<finalizers, isLock, aPc, aFin, tPc>>
  /\ UNCHANGED <<findVars, mapVars, eaVars>>
  /\ UNCHANGED <<sessVars, objVars, chanVars, recVars, patVars, callVars, rmVars, panicked, piVars, readVars>>

\* the loop of terminate is over, and its deferred Unlock runs
TermUnlock ==
  /\ tPc = "run"
  /\ tIdx = 0
  /\ isLock' = ""
  /\ tPc' = "idle"
  /\ UNCHANGED <<finalizers, aPc, aFin, tIdx, tRan>>
  /\ UNCHANGED <<findVars, mapVars, eaVars>>
  /\ UNCHANGED <<sessVars, objVars, chanVars, recVars, patVars, callVars, rmVars, panicked, piVars, readVars>>

\* calls of addFinalizer and of terminate on one interceptState
NextFinal ==
  \/ \E f \in Finalizers : AddLock(f)
  \/ AddAppend
  \/ TermLock
  \/ \E failed \in BOOLEAN : TermRun(failed)
  \/ TermUnlock
SpecFinal == Init /\ [][NextFinal]_vars

(***************************************************************************)
(* Properties                                                              *)
(***************************************************************************)
\* the reconciler sends a result to call c in this step
SendsTo(c) == cSent'[c] = cSent[c] + 1

\* call c takes a result from its waitCh in this step
Receives(c) == cPc[c] = "wait" /\ chanBuf[c] # <<>> /\ chanBuf'[c] = Tail(chanBuf[c])

\* objects that left the current set and that something still refers to
Left == { o \in Objs : objInfo[o] # NoInfo /\ o \notin CurrentObjs }

\* call c passed CanIntercept and went on to register and create
Proceeded(c) == cPc[c] \in {"register", "create", "wait", "mounts", "remove", "removing", "cleanup"}

\* C1: once setCurrentIntercepts(S) has returned, the ids of the current set
\* are exactly the ids of S, the latest snapshot (a failed Recv counts as the
\* empty snapshot), and each id maps to the object that carries its record.
C1_CurrentIsLatestSnapshot ==
  /\ { i \in IDs : currentIntercepts[i] # 0 } = SnapIds(rSnap)
  /\ \A i \in DOMAIN rSnap : objInfo[currentIntercepts[rSnap[i].id]].id = rSnap[i].id

\* an id of an earlier snapshot is gone and another one took its place
C1_Witness ==
  /\ SnapIds(rSnap) = {2} /\ currentIntercepts[1] = 0 /\ currentIntercepts[2] # 0
  /\ objInfo[1] # NoInfo /\ objCancelled[1]

\* C2: an intercept that a snapshot dropped from the current set has its scope
\* cancelled and its scoped work drained before the reconciler starts to
\* process the following snapshot.
C2_DroppedDrainedBeforeNext ==
  [][ (rPc = "recv" /\ rPc' = "iter")
        => \A o \in Left : objCancelled[o] /\ objWg[o] = 0 ]_vars

\* C3: the result sent to the waiter for an ACTIVE record in the session's
\* namespace carries no error; a call that receives an error-free result does
\* not fail on it; and a call returns success only from the wait for
\* wr.mountsDone, after that channel fired, with the info of an ACTIVE intercept.
C3_ActiveSucceedsAfterMountsDone ==
  [][ \A c \in Calls :
        /\ ( /\ SendsTo(c) /\ chanBuf'[c] # chanBuf[c]
             /\ rSnap[rIdx].disp = "ACTIVE" /\ rSnap[rIdx].ns = SessionNamespace )
              => ~chanBuf'[c][Len(chanBuf'[c])].err
        /\ (Receives(c) /\ ~Head(chanBuf[c]).err)
              => cRes'[c] = cRes[c] /\ cPc'[c] \in {"wait", "mounts"}
        /\ (cRes'[c].err = "SUCCESS" /\ cRes[c].err # "SUCCESS")
              => /\ cPc[c] = "mounts" /\ MountsDoneFired(cGot[c])
                 /\ cRes'[c].info = cGot[c].info /\ cGot[c].info.disp = "ACTIVE" ]_vars

\* a call returned success
C3_Witness == cPc[1] = "done" /\ cRes[1].err = "SUCCESS" /\ cSent[1] = 1

\* C4: the result sent to the waiter for a record with a failure disposition
\* carries an error, and the call that receives a result with an error
\* returns FAILED_TO_ESTABLISH at once.
C4_FailureFailsAtOnce ==
  [][ \A c \in Calls :
        /\ ( /\ SendsTo(c) /\ chanBuf'[c] # chanBuf[c]
             /\ rSnap[rIdx].disp \notin {"WAITING", "ACTIVE"} )
              => chanBuf'[c][Len(chanBuf'[c])].err
        /\ (Receives(c) /\ Head(chanBuf[c]).err)
              => /\ cRes'[c].err = "FAILED_TO_ESTABLISH"
                 /\ cPc'[c] = "remove" ]_vars

\* a call was notified of a record with a failure disposition and returned
C4_Witness ==
  /\ cRes[1].err = "FAILED_TO_ESTABLISH" /\ cRes[1].via = "waitCh" /\ cSent[1] = 1
  /\ currentIntercepts[1] # 0 /\ objInfo[currentIntercepts[1]].disp = "NO_AGENT"
  /\ objInfo[currentIntercepts[1]].name = cReq[1].name

\* C5: the reconciler never sends on a waiter channel that has been closed.
C5_NoSendOnClosedChannel == ~panicked

\* C6: a waiter leaves the registry when the reconciler handles a record of
\* its name that is not WAITING, or when its own call cleans up, and in no
\* other step; a call is sent at most one result.
C6_WaiterTakenOnce ==
  [][ /\ \A c \in Calls : cSent'[c] <= 1
      /\ (rPc = "iter" /\ rPc' = "notify")
            => /\ rSnap[rIdx].disp # "WAITING"
               /\ rAw' = interceptWaiters[rSnap[rIdx].name]
               /\ interceptWaiters'[rSnap[rIdx].name] = 0
      /\ \A n \in Names :
           (interceptWaiters[n] # 0 /\ interceptWaiters'[n] # interceptWaiters[n])
             => \/ rPc = "iter" /\ rPc' = "notify" /\ rSnap[rIdx].name = n
                \/ \E c \in Calls : cPc[c] \in {"register", "cleanup"} /\ cReq[c].name = n ]_vars

\* a second record of the name is handled while the call, notified once,
\* is still running: no waiter is left for it
C6_Witness ==
  /\ cSent[1] = 1 /\ cPc[1] \in {"wait", "mounts"}
  /\ rPc = "notify" /\ rAw = 0 /\ rSnap[rIdx].name = cReq[1].name

\* C7: removeIntercept stops the handler, cancels the scope of the intercept
\* and waits for its scoped work, in that order, before it sends the remove
\* request: when the request is sent the scope is cancelled and no scoped
\* work of the intercept is running.
C7_RemoveOrder ==
  [][ \A p \in RmProcs :
        (rmPc[p] = "send" /\ rmPc'[p] # "send")
          => /\ rmLog[p] = <<"stop", "cancel", "drained">>
             /\ objCancelled[Head(rmQueue[p])]
             /\ objWg[Head(rmQueue[p])] = 0 ]_vars

\* a removal ran to the end
C7_Witness ==
  /\ rmPc[User] = "idle" /\ rmLog[User] = <<"stop", "cancel", "drained", "send">>

\* C8: a call that returns without success after the manager accepted its
\* create request has sent a remove request for the intercept.
C8_FailedCallRemoves ==
  \A c \in Calls :
    (cPc[c] = "done" /\ cCreated[c] /\ cRes[c].err # "SUCCESS")
      => <<c, cReq[c].name>> \in removeReqs

\* C9: two concurrent calls for the same name never both proceed to create
\* the intercept.
C9_SameNameExcluded ==
  \A c, d \in Calls :
    (c # d /\ Proceeded(c) /\ Proceeded(d)) => cReq[c].name # cReq[d].name

\* C10: two concurrent calls for different names and the same target host
\* and non-zero target port never both proceed to create an intercept.
C10_SameTargetExcluded ==
  \A c, d \in Calls :
    (c # d /\ Proceeded(c) /\ Proceeded(d) /\ cReq[c].name # cReq[d].name)
      => ~( /\ cReq[c].targetPort # 0
            /\ cReq[c].targetPort = cReq[d].targetPort
            /\ cReq[c].targetHost = cReq[d].targetHost )

\* the reconciler finishes the handling of a record in this step
Notifies == rPc = "notify" /\ rPc' = "iter"

\* C11: no two entries of the current intercept set have the same name.
C11_OneInterceptPerName ==
  \A i, j \in IDs :
    (i # j /\ currentIntercepts[i] # 0 /\ currentIntercepts[j] # 0)
      => objInfo[currentIntercepts[i]].name # objInfo[currentIntercepts[j]].name

\* two intercepts are current, under names that other ids carried before
C11_Witness ==
  /\ currentIntercepts[1] # 0 /\ currentIntercepts[2] # 0
  /\ objInfo[currentIntercepts[1]].name = "b" /\ objInfo[currentIntercepts[2]].name = "a"

\* C12: CanIntercept sets an empty namespace to the session's and rejects any
\* other namespace with NAMESPACE_AMBIGUITY, so that a call that goes on has
\* the session's namespace; a record that is ACTIVE in another namespace is
\* reported to its waiter with an error and starts nothing in the tracker.
C12_OneNamespace ==
  [][ /\ \A c \in Calls :
           /\ (cPc[c] = "idle" /\ cPc'[c] # "idle")
                 => /\ cReq'[c].ns \in Namespaces
                    /\ cReq'[c].ns # SessionNamespace
                          => /\ cPc'[c] = "done"
                             /\ cRes'[c].err = "NAMESPACE_AMBIGUITY"
           /\ cPc'[c] \notin {"idle", "done"} => cReq'[c].ns = SessionNamespace
           /\ ( /\ SendsTo(c) /\ chanBuf'[c] # chanBuf[c]
                /\ rSnap[rIdx].ns # SessionNamespace )
                 => chanBuf'[c][Len(chanBuf'[c])].err
      /\ (Notifies /\ rSnap[rIdx].ns # SessionNamespace)
            => /\ patAlive' = patAlive /\ patSnapshot' = patSnapshot
               /\ objWg' = objWg ]_vars

\* a waiter was told of a record that is ACTIVE in another namespace
C12_Witness ==
  /\ chanBuf[1] # <<>> /\ chanBuf[1][1].err
  /\ objInfo[chanBuf[1][1].obj].ns # SessionNamespace
  /\ objInfo[chanBuf[1][1].obj].disp = "ACTIVE"
  /\ rPc = "iter" /\ rSnap # <<>> /\ rSnap[1].ns # SessionNamespace /\ rIdx = 2

\* the loop leaves with its return value in this step
LoopReturns == rPc \notin {"done", "failed"} /\ rPc' \in {"done", "failed"}

\* the part of C13 about the reconciliation that precedes the return
C13_EmptyFirst ==
  /\ (rPc = "recv" /\ rErr'.err # "")
        => /\ \A i \in IDs : currentIntercepts'[i] = 0
           /\ \A o \in CurrentObjs : objInfo'[o] # NoInfo => objCancelled'[o]
           /\ currentAPIServers' = {}
           /\ patSnapshot' = {} /\ rSnap' = <<>> /\ rPc' = "iter"
  /\ LoopReturns
        => /\ rPc = "iter" /\ rErr.err # "" /\ rSnap = <<>>
           /\ \A i \in IDs : currentIntercepts'[i] = 0
           /\ \A k \in PodKeys : patAlive'[k] = 0

\* C13 as amended: a failed Recv is first handled as an empty snapshot; the
\* loop then returns nil when the session's context is done or the error is
\* the end of the stream, and an error in every other case.
C13_ErrorReconcilesThenReturns ==
  [][ /\ C13_EmptyFirst
      /\ LoopReturns => (rPc' = "done" <=> (rErr.ctxDone \/ rErr.err = "eof")) ]_vars

\* the loop returned an error after it tore down an intercept that still drains
C13_Witness ==
  /\ rPc = "failed" /\ rErr.err = "other" /\ ~rErr.ctxDone
  /\ \E o \in Objs : objInfo[o] # NoInfo /\ objCancelled[o] /\ objWg[o] > 0

\* C13: a failed Recv is first handled as an empty snapshot; the loop then
\* ends normally for an end of the stream while the session is ending and
\* returns an error for any other error.
C13_Original ==
  [][ /\ C13_EmptyFirst
      /\ LoopReturns => (rPc' = "done" <=> (rErr.ctxDone /\ rErr.err = "eof")) ]_vars

\* an intercept of the latest snapshot is handed to the tracker under key k
WantedKey(k) ==
  \E i \in DOMAIN rSnap : /\ rSnap[i].disp # "WAITING" /\ ~RecordErr(rSnap[i])
                          /\ rSnap[i].podIP = k

\* C14: between two snapshot passes, the one session of a key runs (its scope
\* is not cancelled and its worker is registered) as long as an ACTIVE
\* intercept of the latest snapshot has that key, whichever intercepts of that
\* key came and went, and no session is left for a key that none has.
C14_SharedSessionKeptWhileWanted ==
  rPc = "recv" =>
    \A k \in PodKeys :
      IF WantedKey(k)
      THEN /\ patAlive[k] # 0
           /\ ~objCancelled[patAlive[k]]
           /\ objWg[patAlive[k]] > 0
      ELSE patAlive[k] = 0

\* the port a value of TELEPRESENCE_API_PORT declares, 0 when it declares none
\* ("81" and "90" are the two values in 1..65535)
DeclaredPort(env) ==
  IF env = <<8, 1>> THEN 81 ELSE IF env = <<9, 0>> THEN 90 ELSE 0

\* the ids of the ACTIVE intercepts of the current set that declare a port
DeclaringIds ==
  { i \in IDs : /\ currentIntercepts[i] # 0
                /\ objInfo[currentIntercepts[i]].disp = "ACTIVE"
                /\ DeclaredPort(objInfo[currentIntercepts[i]].apiPortEnv) # 0 }

\* C15: the ports with a local API listener are exactly the valid ports
\* declared by the ACTIVE intercepts of the current set (one listener per
\* port: the listeners are keyed by port), and every request matcher is
\* registered under the id of such an intercept; nothing unwanted outlives
\* the pass that made it unwanted.
C15_ApiServersAreDeclaredPorts ==
  /\ currentAPIServers =
       { DeclaredPort(objInfo[currentIntercepts[i]].apiPortEnv) : i \in DeclaringIds }
  /\ \A i \in IDs : currentMatchers[i] # "" => i \in DeclaringIds

\* two ACTIVE intercepts declare the same port and share its one listener,
\* each with its own matcher
C15_Witness ==
  /\ DeclaringIds = IDs
  /\ currentAPIServers = {81}
  /\ \A i \in IDs : currentMatchers[i] # ""

\* the rules of the agent config that the request of the call selects: the
\* service name is not given or is the rule's, and the port identifier is not
\* given or is the rule's service port (name or number) when the rule has a
\* service UID, the rule's container port (name or number) when it has none
SelectedRules ==
  { p \in { q \in (DOMAIN fiAc) \X (1..MaxRules) : q[2] \in DOMAIN fiAc[q[1]] } :
      LET ic == fiAc[p[1]][p[2]]
          pi == fiSpec.portIdentifier
      IN  /\ fiSpec.serviceName \in {"", ic.serviceName}
          /\ \/ pi = ""
             \/ ic.serviceUID # "" /\ pi \in {"http", "80"}
             \/ ic.serviceUID = "" /\ pi \in {"web", "8080"} }

IsAmbiguity(e) ==
  e \in { "has multiple interceptable ports: pass --service and/or --port",
          "has multiple interceptable services with port: pass --service",
          "has multiple interceptable ports in service: pass --port",
          "intercept config is broken: service, port is declared more than once" }

\* C16: findIntercept returns a pair exactly when exactly one rule satisfies
\* the predicate, and then the rule of the pair is that rule; with two or more
\* it fails for ambiguity, with none it fails with "has no interceptable
\* port" followed by the filters that were applied.
C16_FindsTheOnlyMatch ==
  fiPc = "done" =>
    /\ Cardinality(SelectedRules) = 1 <=> fiRes.err = ""
    /\ Cardinality(SelectedRules) = 1 =>
         /\ \E p \in SelectedRules : fiRes.ic = fiAc[p[1]][p[2]]
         /\ fiRes.cn \in DOMAIN ContainerNames
    /\ Cardinality(SelectedRules) >= 2 <=> IsAmbiguity(fiRes.err)
    /\ Cardinality(SelectedRules) = 0 <=>
         fiRes.err =
           (IF fiSpec.serviceName # "" /\ fiSpec.portIdentifier # ""
              THEN "has no interceptable port matching service, port"
            ELSE IF fiSpec.serviceName # ""
              THEN "has no interceptable port matching service"
            ELSE IF fiSpec.portIdentifier # ""
              THEN "has no interceptable port matching port"
            ELSE "has no interceptable port")

\* a request for svcA without a port against one rule of svcA and one of svcB
\* got the rule of svcA
C16_Witness ==
  /\ fiPc = "done"
  /\ fiSpec.serviceName = "svcA" /\ fiSpec.portIdentifier = ""
  /\ Len(fiAc[1]) = 1 /\ Len(fiAc[2]) = 1
  /\ fiAc[1][1].serviceName = "svcB" /\ fiAc[2][1].serviceName = "svcA"
  /\ fiRes.err = "" /\ fiRes.ic = fiAc[2][1]

\* C17: the message of the ambiguity error follows the filters of the
\* request: neither given, it asks for --service and/or --port; only a port,
\* for --service; only a service, for --port; both, it reports the
\* service and port as declared more than once.
C17_AmbiguityMessageByFilters ==
  (fiPc = "done" /\ Cardinality(SelectedRules) >= 2) =>
    fiRes.err =
      (IF fiSpec.serviceName = "" /\ fiSpec.portIdentifier = ""
         THEN "has multiple interceptable ports: pass --service and/or --port"
       ELSE IF fiSpec.serviceName = "" /\ fiSpec.portIdentifier # ""
         THEN "has multiple interceptable services with port: pass --service"
       ELSE IF fiSpec.serviceName # "" /\ fiSpec.portIdentifier = ""
         THEN "has multiple interceptable ports in service: pass --port"
       ELSE "intercept config is broken: service, port is declared more than once")

\* a request with only a port against two services with that port is asked
\* for --service
C17_Witness ==
  /\ fiPc = "done"
  /\ fiSpec.serviceName = "" /\ fiSpec.portIdentifier = "80"
  /\ Cardinality(SelectedRules) = 2
  /\ fiRes.err = "has multiple interceptable services with port: pass --service"

\* the call of ensureAgent got as far as getOrCreateAgentConfig
ConfigReached ==
  /\ eaPc # "idle"
  /\ eaIn.args.injectorEnabled
  /\ eaRet.msg # <<"watch of events failed">>

\* the inject annotation of the pod template disables the injection
InjectDisabled == eaIn.args.wl.inject \in {"disabled", "false"}

\* the call failed as not interceptable and wrote nothing to the map
NotInterceptable ==
  /\ eaPc = "done"
  /\ eaRet.returned /\ eaRet.cat = "user" /\ eaRet.msg = <<"is not interceptable">>
  /\ cmLog = <<>>
  /\ cmData = eaIn.entry

UpdateWanted ==
  /\ ConfigReached
  /\ eaIn.args.wl.inject \in {"", "enabled"} /\ ~eaIn.args.wl.manual
  /\ eaIn.args.agentImage # ""
  /\ ~eaIn.args.spec.nil
  /\ eaIn.args.spec.serviceName = "svcA"
  /\ eaIn.args.spec.portIdentifier = ""

\* C19: when the entry of the workload names another agent image than the
\* configured one and the request is for extended mode, the entry gets the
\* configured image, and the agent sessions of the workload are marked
\* inactive before the entry is persisted.
C19_StaleImageUpdated ==
  ( /\ UpdateWanted
    /\ eaIn.entry.found /\ eaIn.entry.agentImage # eaIn.args.agentImage
    /\ eaIn.args.spec.mechanism # "tcp" )
  => /\ eaSce.agentImage = eaIn.args.agentImage
     /\ cmLog = <<"inactive", "persist">>

\* the reasons and notes that the claim calls fatal
FatalByReason(fe) ==
  \/ fe.reason = "BackOff"
  \/ /\ fe.reason \in {"Failed", "FailedCreate", "FailedScheduling"}
     /\ ~(fe.type = "Warning" /\ fe.note = "0/3 nodes are available")

\* C20: once waitForAgents has received a fatal event (BackOff, or Failed,
\* FailedCreate or FailedScheduling that is no Warning with a note known as
\* transient) it has returned a user error with the note of that event; it
\* does not wait on.
C20_FatalEventEndsWait ==
  (eaLast # NoEvent /\ FatalByReason(eaLast)) =>
    /\ eaPc = "done"
    /\ eaRet.returned /\ eaRet.cat = "user"
    /\ eaRet.msg[1] = eaLast.note

\* the wait ended on a BackOff event after it had collected another event,
\* before the deadline
C20_Witness ==
  /\ eaLast # NoEvent /\ eaLast.reason = "BackOff"
  /\ eaFes # <<>>
  /\ eaCtx = ""
  /\ eaPc = "done" /\ eaRet.cat = "user"

\* C21: waitForAgents succeeds on the first snapshot that holds an agent
\* that is not blacklisted and returns the agents of that snapshot that are
\* not blacklisted; as long as it waits, every snapshot it has received was
\* empty or held blacklisted agents only.
C21_FirstUsableSnapshotReturned ==
  /\ eaPc = "wait" => eaSnap.state \subseteq Blacklisted
  /\ (eaPc = "done" /\ eaRet.cat = "" /\ eaIn.args.injectorEnabled) =>
       /\ eaSnap.got
       /\ eaRet.agents = eaSnap.state \ Blacklisted
       /\ eaRet.agents # {}
  /\ (eaPc = "done" /\ eaRet.cat # "") => eaSnap.state \subseteq Blacklisted

\* the wait returned the one agent that is not blacklisted of a snapshot of two
C21_Witness ==
  /\ eaPc = "done" /\ eaRet.cat = ""
  /\ eaSnap.state = {1, 2}
  /\ eaRet.agents = {1}

\* ensureAgent has returned the error of waitForAgents: that of a fatal
\* event, of the deadline or the cancellation, or of the closed channel
FailedInWait ==
  /\ eaPc = "done" /\ eaRet.returned /\ eaRet.cat # ""
  /\ \/ eaRet.msg[1] = "request"
     \/ eaRet.msg = <<"channel closed while waiting for agent to arrive">>
     \/ eaLast # NoEvent /\ eaRet.msg[1] = eaLast.note

\* the number of deletions of the entry that were requested
Deletions == Cardinality({ i \in DOMAIN cmLog : cmLog[i] = "delete" })

\* C22: when ensureAgent returns the error of waitForAgents it has requested
\* the deletion of the entry, once and as the last thing done to the entry,
\* in the scope of its caller: the entry is gone even when the wait scope has
\* expired, unless the caller's scope itself is done. In every other case no
\* deletion has been requested.
C22_DropOnlyAfterFailedWait ==
  IF FailedInWait
  THEN /\ Deletions = 1
       /\ cmLog[Len(cmLog)] = "delete"
       /\ eaCtx # "canceled" => cmData = NoEntry
  ELSE Deletions = 0

\* the wait timed out after the record had been created, and the record is gone
C22_Witness ==
  /\ FailedInWait
  /\ eaCtx = "timed out"
  /\ cmLog = <<"persist", "delete">>
  /\ cmData = NoEntry

\* PrepareIntercept has returned to its caller
PrepareReturned == piRet.returned /\ piCall.handler = "PrepareIntercept"

\* the handler returned the error inside the PreparedIntercept, with its text
\* and its category, and no error of the call
InsideResult(msg, cat) ==
  /\ piRet.err = NilError
  /\ piRet.pi = "error"
  /\ piRet.error = msg
  /\ piRet.errorCategory = cat

\* C23: PrepareIntercept returns a recovered panic as the error of the call;
\* an error that is no gRPC status (of GetWorkload, of ensureAgent, of
\* findIntercept) inside the PreparedIntercept, as its text and its category
\* with a nil error of the call; and a gRPC status error as the error of the
\* call with a nil result.
C23_ErrorsOfPrepareIntercept ==
  PrepareReturned =>
    /\ piCall.getWorkload = "panic" =>
         piRet.pi = "nil" /\ piRet.err.kind = "panic"
    /\ piCall.getWorkload = "not found" => InsideResult(<<"not found">>, "user")
    /\ piCall.getWorkload = "failed" => InsideResult(<<"failed">>, "unknown")
    /\ piCall.getWorkload = "ok" /\ eaRet.cat = "canceled" =>
         piRet.pi = "nil" /\ piRet.err = [kind |-> "status", msg |-> eaRet.msg]
    /\ piCall.getWorkload = "ok" /\ eaRet.cat = "user" => InsideResult(eaRet.msg, "user")
    /\ piCall.getWorkload = "ok" /\ eaRet.cat = "other" => InsideResult(eaRet.msg, "unknown")
    /\ piCall.getWorkload = "ok" /\ eaRet.cat = "" =>
         /\ piRet.err = NilError
         /\ piRet.pi \in {"error", "prepared"}
         /\ piRet.pi = "error" => piRet.errorCategory = "user" /\ piRet.error # <<>>

\* the wait ended with the status error of the closed channel and
\* PrepareIntercept returned it as the error of the call
C23_Witness ==
  /\ PrepareReturned
  /\ eaRet.cat = "canceled"
  /\ piRet.pi = "nil"
  /\ piRet.err.kind = "status"

\* what checkInterceptAnnotations made of the workload, as the call shows it:
\* one of its two errors, not eligible, or eligible (the call went on)
AnnotationsVerdict ==
  IF eaPc = "done" /\ eaRet.msg = <<"is not a valid value for the annotation">>
  THEN "invalid"
  ELSE IF eaPc = "done"
          /\ eaRet.msg = <<"annotation manual-inject=true but pod has no traffic-agent container">>
  THEN "no container"
  ELSE IF eaPc = "done" /\ eaRet.msg = <<"is not interceptable">>
  THEN "not eligible"
  ELSE "eligible"

LeavesDepart == eaPc = "depart" /\ eaPc' # "depart"

\* nothing is written to the agent-config map in this step
NothingPersisted == cmData' = cmData /\ cmLog' = cmLog

\* the error of findIntercept for the spec of the call, "" when it finds a rule
SpecError ==
  IF eaIn.args.spec.nil THEN "" ELSE findIntercept(GeneratedRules, eaIn.args.spec).err

HandlesRecord == rPc \in {"iter", "notify"} /\ rIdx <= Len(rSnap) /\ rPc' # rPc

\* the pod access tracker is asked to start in this step
TrackerStarted == patSnapshot' # patSnapshot /\ patSnapshot' # {}

\* C24: handleInterceptSnapshot never works on a WAITING record: it takes no
\* waiter out of the registry for it, sends nothing to a waiter for it and
\* does not hand it to the start of the pod access tracker; the tracker is
\* started only for an ACTIVE record of the namespace of the session.
C24_WaitingRecordsSkipped ==
  [][ /\ HandlesRecord => rSnap[rIdx].disp # "WAITING"
      /\ (rPc' # rPc /\ interceptWaiters' # interceptWaiters) => HandlesRecord
      /\ cSent' # cSent => HandlesRecord
      /\ TrackerStarted =>
           /\ HandlesRecord
           /\ rSnap[rIdx].disp = "ACTIVE"
           /\ rSnap[rIdx].ns = SessionNamespace ]_vars

\* a snapshot with a WAITING record has been handled to its end and the
\* waiter of that record is still registered, with nothing sent to it
C24_Witness ==
  /\ rPc = "iter" /\ rIdx > Len(rSnap)
  /\ \E i \in DOMAIN rSnap :
       /\ rSnap[i].disp = "WAITING"
       /\ interceptWaiters[rSnap[i].name] # 0
       /\ cSent[interceptWaiters[rSnap[i].name]] = 0

\* setCurrentIntercepts runs in this step on the snapshot rSnap'
SnapshotApplied == rPc = "recv" /\ rPc' = "iter"

\* C25: for an id that is already in the current set, setCurrentIntercepts
\* keeps the object and its client-only fields (client mount point, local
\* mount port, read-only, handler pid or container), replaces the fields that
\* come from the traffic-manager by those of the new record, and neither
\* cancels nor recreates the scope of the object.
C25_RefreshKeepsClientFields ==
  [][SnapshotApplied =>
       \A i \in DOMAIN rSnap' :
         LET o == currentIntercepts[rSnap'[i].id]
         IN  o # 0 =>
               /\ currentIntercepts'[rSnap'[i].id] = o
               /\ objInfo'[o] = rSnap'[i]
               /\ objMount'[o] = objMount[o]
               /\ objHandler'[o] = objHandler[o]
               /\ objCancelled'[o] = objCancelled[o]]_vars

\* a snapshot refreshed an intercept that has the mount point of its waiter,
\* taken from the registry in an earlier pass, and a handler
C25_Witness ==
  /\ rPc = "iter" /\ rIdx = 1 /\ Len(rSnap) = 1
  /\ currentIntercepts[1] = 1
  /\ objInfo[1] = rSnap[1]
  /\ interceptWaiters["a"] = 0
  /\ objMount[1] = MountOfCall(1)
  /\ objHandler[1] = "pid"

\* C26: for an id that is not in the current set, setCurrentIntercepts makes
\* an object with a scope of its own that is not cancelled; when a waiter is
\* registered under the name of the record the object gets the mount point,
\* the mount port and the read-only flag of that waiter, and no mount
\* otherwise. The waiter stays registered then: the reconciler takes it out
\* of the registry only when it handles a record of that name that is not
\* WAITING.
C26_NewInterceptTakesWaiterMount ==
  [][ /\ SnapshotApplied =>
           /\ interceptWaiters' = interceptWaiters
           /\ \A i \in DOMAIN rSnap' :
                LET id == rSnap'[i].id
                    o == currentIntercepts'[id]
                    aw == interceptWaiters[rSnap'[i].name]
                IN  currentIntercepts[id] = 0 =>
                      /\ o # 0
                      /\ objInfo'[o] = rSnap'[i]
                      /\ ~objCancelled'[o]
                      /\ objHandler'[o] = ""
                      /\ objMount'[o] = IF aw # 0 THEN MountOfCall(aw) ELSE NoMount
      /\ (rPc' # rPc /\ interceptWaiters' # interceptWaiters) =>
           /\ rPc = "iter" /\ rIdx <= Len(rSnap)
           /\ rSnap[rIdx].disp # "WAITING"
           /\ interceptWaiters' = [interceptWaiters EXCEPT ![rSnap[rIdx].name] = 0] ]_vars

\* the new intercept of a WAITING record has the mount point of the waiter of
\* its name, and the waiter is still registered after the pass
C26_Witness ==
  /\ rPc = "iter" /\ rIdx > Len(rSnap)
  /\ currentIntercepts[1] = 1
  /\ objInfo[1].disp = "WAITING"
  /\ interceptWaiters["a"] = 1
  /\ objMount[1] = MountOfCall(1)
  /\ ~objCancelled[1]

\* C27: setCurrentIntercepts changes the intercept set, the scopes, the API
\* servers and the matchers in one section under the lock of the session, and
\* getCurrentIntercepts, getInterceptByName, ensureNoInterceptConflict and
\* InterceptInfo read under that lock: what such a reader has seen is, at
\* every moment of its reading, what the session holds, so all of it comes
\* from one snapshot, the one before or the one after a concurrent update.
C27_ReadersSeeOneSnapshot ==
  rdPc = "locked" =>
    \A id \in IDs : rdView[id] # Unread => rdView[id] = Entry(id)

\* getCurrentIntercepts has copied a set of two intercepts while the
\* reconciler is about to receive the next snapshot
C27_Witness ==
  /\ rdPc = "locked" /\ ReadFinished
  /\ rdReq.kind = "getCurrentIntercepts"
  /\ \A id \in IDs : rdView[id] # Unread /\ rdView[id].obj # 0
  /\ rPc = "recv"

\* C28: InterceptInfo reports, while it holds the lock of the session,
\* intercepted = true with the metadata of the matcher exactly when a matcher
\* is registered under the caller id and matches the path and the headers;
\* otherwise intercepted = false without metadata; it never returns an error.
C28_InterceptInfoByMatcher ==
  (rdPc = "locked" /\ rdReq.kind = "InterceptInfo" /\ ReadFinished) =>
    LET am == currentMatchers[rdReq.callerID]
        hit == am # "" /\ Matches(am, rdReq.path, rdReq.headers)
    IN  /\ currentInterceptsLock = "reader"
        /\ iiRes.returned
        /\ iiRes.err = ""
        /\ iiRes.intercepted = hit
        /\ iiRes.metadata = IF hit THEN MetadataOfId(rdReq.callerID) ELSE ""

\* a request with other headers than those of the matcher of the caller is
\* reported as not intercepted
C28_Witness ==
  /\ rdPc = "locked" /\ rdReq.kind = "InterceptInfo" /\ ReadFinished
  /\ currentMatchers[rdReq.callerID] = "h"
  /\ rdReq.headers = "x"
  /\ ~iiRes.intercepted

\* waitForAgents receives an event in this step
EventReceived == eaPc = "wait" /\ (eaFes' # eaFes \/ eaLast' # eaLast)

\* an event that is not fatal: of a reason other than BackOff, Failed,
\* FailedCreate and FailedScheduling, or a warning of one of the last three
\* with a note that is known to be transient
NonFatal(fe) ==
  \/ fe.reason \notin {"BackOff", "Failed", "FailedCreate", "FailedScheduling"}
  \/ /\ fe.reason \in {"Failed", "FailedCreate", "FailedScheduling"}
     /\ fe.type = "Warning"
     /\ fe.note = "0/3 nodes are available"

\* the wait ends in this step because its context is done
WaitTimesOut == eaPc = "wait" /\ eaPc' = "done" /\ eaRet'.cat = "user" /\ eaRet'.msg[1] = "request"

Waiting == eaPc \in {"depart", "wait"}

\* C32: a call of ensureAgent that waits, for stale agents to depart or in
\* the three-way wait for arriving agents, returns: the arrival timeout passes
\* or the caller cancels, and from then on the wait ends whatever snapshots
\* and events keep arriving; once returned the call stays returned
C32_EnsureAgentTerminates == Waiting ~> [](eaPc = "done" /\ eaRet.returned)

\* the timeout passed in the three-way wait after an empty snapshot and a
\* collected event, and the call has returned
C32_Witness ==
  /\ eaPc = "done"
  /\ eaRet.returned
  /\ eaCtx = "timed out"
  /\ eaSnap.got
  /\ eaSnap.state = {}
  /\ eaFes # <<>>

\* the call c is between its start and its return
InFlight(c) == cPc[c] \notin {"idle", "done"}

\* C33: when the exit cleanup of an AddIntercept call has run, the registry
\* holds no waiter that the call registered, and the cleanup removed no
\* waiter that another call in flight registered
C33_CleanupRemovesOwnWaiterOnly ==
  [][ \A c \in Calls :
        (cPc[c] = "cleanup" /\ cPc'[c] = "done") =>
          /\ \A n \in Names : interceptWaiters'[n] # c
          /\ \A n \in Names :
                interceptWaiters'[n] # interceptWaiters[n] =>
                  ~(interceptWaiters[n] # c /\ InFlight(interceptWaiters[n])) ]_vars

\* an intercept of the name n is in the current set
NameCurrent(n) == \E i \in IDs : currentIntercepts[i] # 0 /\ objInfo[currentIntercepts[i]].name = n

\* C34: RemoveIntercept for a name that no current intercept has returns
\* nil at once: no removal starts, so no handler is stopped, no scope is
\* cancelled and no request is sent, and nothing of the session changes; the
\* name is still absent afterwards, so a second call does the same
C34_RemoveAbsentIsNoOp ==
  [][ \A n \in Names :
        (~NameCurrent(n) /\ RemoveIntercept(n)) =>
          /\ rmLog'[User] = <<"already removed", n>>
          /\ UNCHANGED <<sessVars, objVars, chanVars, recVars, patVars, callVars,
                         rmPc, rmQueue, rmName, removeReqs>>
          /\ ~NameCurrent(n)' ]_vars

\* RemoveIntercept("a") returned nil after the intercept "a" had left the
\* current set, while the handler of that intercept is still running
C34_Witness ==
  /\ rmLog[User] = <<"already removed", "a">>
  /\ rmPc[User] = "idle"
  /\ ~NameCurrent("a")
  /\ \E o \in handlerAlive : objInfo[o].name = "a"

\* the intercepts that leave the current set in this step
Leaving == { o \in CurrentObjs : \A i \in IDs : currentIntercepts'[i] # o }

\* removeIntercept stops the handler of the intercept it removes
StopsHandler(p) == rmPc[p] = "stop" /\ rmPc'[p] = "cancel"

\* C35: when a snapshot takes an intercept out of the current set, only the
\* scope of that intercept is cancelled: its handler keeps running and stays
\* associated with it, and no removal runs and no remove request is sent. A
\* handler stops running only in the stopHandler step of removeIntercept,
\* which RemoveIntercept, ClearIngestsAndIntercepts and the deferred removal
\* of a failed AddIntercept start, and then it is the handler of the
\* intercept being removed
C35_SnapshotRemovalKeepsHandler ==
  [][ /\ (rPc = "recv" /\ rPc' # "recv") =>
           /\ handlerAlive' = handlerAlive
           /\ UNCHANGED rmVars
           /\ \A o \in Leaving :
                 Live(o)' => /\ objCancelled'[o]
                             /\ objHandler'[o] = objHandler[o]
                             /\ objInfo'[o] = objInfo[o]
           /\ \A o \in CurrentObjs \ Leaving : objCancelled'[o] = objCancelled[o]
      /\ (handlerAlive \ handlerAlive' # {}) =>
           \E p \in RmProcs :
             /\ StopsHandler(p)
             /\ handlerAlive' = handlerAlive \ {Head(rmQueue[p])} ]_vars

\* a snapshot dropped the intercept "a": its scope is cancelled, its handler
\* still runs, and no removal has ever run
C35_Witness ==
  /\ ~NameCurrent("a")
  /\ \E o \in handlerAlive : objInfo[o].name = "a" /\ objCancelled[o] /\ objHandler[o] # ""
  /\ \A p \in RmProcs : rmPc[p] = "idle" /\ rmLog[p] = <<>>
  /\ removeReqs = {}

\* the places <<container, rule>> of the agent config whose rule matches the
\* service name and the port identifier of the request
MatchingPlaces ==
  { pl \in (DOMAIN fiAc) \X (1..MaxRules) :
      pl[2] \in DOMAIN fiAc[pl[1]] /\ RuleMatches(fiSpec, fiAc[pl[1]][pl[2]]) }

\* a container of the agent config has the name that the request gives
RequestedContainerExists ==
  \E x \in DOMAIN ContainerNames : ContainerNames[x] = fiSpec.containerName

\* C36: the container name of the request takes no part in the choice of
\* the rule: findIntercept succeeds exactly when one rule matches service
\* name and port identifier, and returns that rule. The container returned
\* is the one that the request names when the agent config has a container
\* of that name, whichever container declares the rule, and else the
\* container that declares the rule
C36_ContainerNameNeverFilters ==
  fiPc = "done" =>
    /\ fiRes.err = "" <=> Cardinality(MatchingPlaces) = 1
    /\ fiRes.err = "" =>
         \E pl \in MatchingPlaces :
           /\ fiRes.ic = fiAc[pl[1]][pl[2]]
           /\ IF fiSpec.containerName # "" /\ RequestedContainerExists
              THEN ContainerNames[fiRes.cn] = fiSpec.containerName
              ELSE fiRes.cn = pl[1]
    /\ fiRes.err # "" => fiRes.ic = NoRule /\ fiRes.cn = 0

\* the request names the container c2 while the one matching rule is
\* declared in c1: the rule is returned together with c2
C36_Witness ==
  /\ fiPc = "done"
  /\ fiRes.err = ""
  /\ fiSpec.containerName = "c2"
  /\ MatchingPlaces = {<<1, 1>>}
  /\ fiRes.ic = fiAc[1][1]
  /\ fiRes.cn = 2

\* the goroutine of watchFailedInjectionEvents runs
WatchRuns == wPc \in {"select", "send"}

\* C37: once its context is done, the goroutine that watchFailedInjectionEvents
\* started returns, which stops its event watch, also when waitForAgents
\* has returned and receives no more from the event channel while the
\* goroutine holds an event of the workload
C37_WatcherStopsWhenDone == (WatchRuns /\ WatchCtxIsDone) ~> (wPc = "stopped")

\* the ids that reconcileAPIServers wants a matcher for, and the header
\* rules of the current record of an id
WantedNow == WantedIds(currentIntercepts, objInfo)
HeadersNow(i) == objInfo[currentIntercepts[i]].headers

\* a matcher is kept as it is while its id stays wanted, whatever the header
\* rules of the later records are, and dropped when the id is wanted no more
MatcherKept ==
  \A i \in IDs :
    /\ (currentMatchers[i] # "" /\ i \in WantedNow') => currentMatchers'[i] = currentMatchers[i]
    /\ i \notin WantedNow' => currentMatchers'[i] = ""

\* InterceptInfo for a caller id without matcher reports not intercepted
NoMatcherNotIntercepted ==
  (rdPc' = "locked" /\ rdReq'.kind = "InterceptInfo" /\ ReadFinished'
     /\ currentMatchers'[rdReq'.callerID] = "")
    => (iiRes'.returned /\ ~iiRes'.intercepted /\ iiRes'.err = "")

\* C38, as stated: a matcher of an id is compiled once, in the step in which
\* the id becomes wanted, and is kept unchanged until the id stops being
\* wanted; header rules that do not compile leave the id without matcher,
\* and InterceptInfo then reports not intercepted
C38_Original ==
  [][ /\ MatcherKept
      /\ \A i \in IDs :
            currentMatchers'[i] # currentMatchers[i] /\ currentMatchers'[i] # "" =>
              /\ i \notin WantedNow /\ i \in WantedNow'
              /\ currentMatchers'[i] = HeadersNow(i)'
      /\ \A i \in IDs :
            (i \notin WantedNow /\ i \in WantedNow' /\ ~CompileOk(HeadersNow(i)')) =>
              currentMatchers'[i] = ""
      /\ NoMatcherNotIntercepted ]_vars

\* C38: the matcher of a wanted id is compiled from the header rules of the
\* snapshot at which the id is wanted and has no matcher: when the id becomes
\* wanted, and again at every later snapshot as long as the compilation
\* failed. Once compiled it is kept unchanged, whatever the header rules of
\* later snapshots, until the id stops being wanted. While the header rules
\* do not compile the id has no matcher, and InterceptInfo reports not
\* intercepted
C38_MatcherCompiledWhenMissing ==
  [][ /\ MatcherKept
      /\ \A i \in IDs :
            (rPc = "recv" /\ rPc' # "recv" /\ currentMatchers[i] = "" /\ i \in WantedNow') =>
              currentMatchers'[i] = IF CompileOk(HeadersNow(i)') THEN HeadersNow(i)' ELSE ""
      /\ \A i \in IDs :
            currentMatchers'[i] # currentMatchers[i] => rPc = "recv" /\ rPc' # "recv"
      /\ NoMatcherNotIntercepted ]_vars

\* the matcher of intercept 1 was compiled from the header rules "h" and is
\* kept although the current record of the intercept has rules that do not
\* compile
C38_Witness ==
  /\ 1 \in WantedNow
  /\ currentMatchers[1] = "h"
  /\ HeadersNow(1) = "bad"

\* the finalizers from the last one down to the one after position i
ReverseDownTo(fs, i) == [ j \in 1..(Len(fs) - i) |-> fs[Len(fs) + 1 - j] ]

\* the finalizers that terminate ran so far, in the order in which they ran
RanFinalizers == [ j \in DOMAIN tRan |-> tRan[j].f ]

\* C39: a call of terminate runs the registered finalizers one by one from
\* the last registered to the first, each once, whether or not one of them
\* returns an error, and returns only when all have run; while terminate
\* holds the lock no addFinalizer is inside its critical section and the
\* list of finalizers does not change, and while addFinalizer holds it no
\* terminate runs
C39_FinalizersRunOnceInReverse ==
  [][ /\ tPc = "run" => /\ isLock = "terminate"
                        /\ aPc = "idle"
                        /\ RanFinalizers = ReverseDownTo(finalizers, tIdx)
                        /\ finalizers' = finalizers
      /\ aPc = "locked" => isLock = "addFinalizer" /\ tPc = "idle" /\ tRan' = tRan
      /\ (tPc = "run" /\ tPc' = "idle") =>
           /\ Len(tRan) = Len(finalizers)
           /\ RanFinalizers = ReverseDownTo(finalizers, 0) ]_vars

\* terminate has run three finalizers in the reverse order of their
\* registration, although the first one that it ran failed
C39_Witness ==
  /\ tPc = "idle"
  /\ finalizers = <<1, 2, 2>>
  /\ RanFinalizers = <<2, 2, 1>>
  /\ tRan[1].failed

====
